---- MODULE Spec2Model ----
(***************************************************************************)
(* Strategy execution subsystem of service/p2-strategy: the execution      *)
(* poller and orchestrator, the task dispatcher (TaskHandler), the task    *)
(* watchdog (TaskWatcher) and the tables of the shared store they act on.  *)
(***************************************************************************)
EXTENDS Integers, Sequences, FiniteSets, TLC

(* ------------------------------------------------------------------ *)
(* Bounds of the model                                                 *)
(* ------------------------------------------------------------------ *)
MaxExecutions == 1
MaxDetails == 2
MaxContinuousDays == 2
MaxDay == 3
MaxRaises == 1
MaxStoredDetails == 1
MaxStoredTasks == 1
MaxDate == 14
MaxDays == 3
MaxWindow == 2
MaxRoots == 12
MaxSettled == 1
MaxRuns == 2
MaxRows == 11
MaxBacklog == 2

(* ------------------------------------------------------------------ *)
(* Program constants                                                   *)
(* ------------------------------------------------------------------ *)
POLL_INTERVAL == 10
BUFFER == 170
WATCHER_BUFFER == 600
QUERY_LIMIT == 10
RUNS_LIMIT == 20
SECONDS_PER_DAY == 86400

\* SQL NULL / Python None of a numeric column.
NULL == -1
\* SQL NULL of a text column.
NO_MESSAGE == "NULL"

\* The status literal of the WHERE clause of get_pending_tasks.
PENDING_STATUS == "pending"
\* The status literal store_strategy_execution_task writes.
QUEUED_STATUS == "queued"

Replicas == {1, 2}

(* ------------------------------------------------------------------ *)
(* Time of day and calendar                                            *)
(* ------------------------------------------------------------------ *)
\* "HH:MM" is the pair <<HH, MM>>.
convert_to_second(timestamp_str) == timestamp_str[1] * 3600 + timestamp_str[2] * 60

\* Day 0 is Monday 2026-03-23; a date is its number of days after it.
weekday(date) == date % 7

\* 2026-03-14, 2026-03-30, 2026-04-02 and 2026-04-03 of the holiday list.
nse_holidays == {-9, 7, 10, 11}

is_trading_day_nse(date) == date \notin nse_holidays

is_trading_day_bse(date) == date \notin nse_holidays

\* get_next_business_day taking every holiday for a single day: the day after
\* a holiday is returned untested.
RECURSIVE get_next_business_day_single_holiday(_, _)
get_next_business_day_single_holiday(current_date, exchange) ==
    LET next == current_date + 1 IN
    IF weekday(next) >= 5 THEN get_next_business_day_single_holiday(next, exchange)
    ELSE IF exchange = "NSE" /\ ~is_trading_day_nse(next) THEN next + 1
    ELSE IF exchange = "BSE" /\ ~is_trading_day_bse(next) THEN next + 1
    ELSE next

\* get_next_business_day testing the date it is given before it moves on.
RECURSIVE get_next_business_day_from_today(_, _)
get_next_business_day_from_today(current_date, exchange) ==
    IF weekday(current_date) >= 5
    THEN get_next_business_day_from_today(current_date + 1, exchange)
    ELSE IF exchange = "NSE" /\ ~is_trading_day_nse(current_date)
         THEN get_next_business_day_from_today(current_date + 1, exchange)
    ELSE IF exchange = "BSE" /\ ~is_trading_day_bse(current_date)
         THEN get_next_business_day_from_today(current_date + 1, exchange)
    ELSE current_date

\* get_next_business_day; itr is decremented once before the return, so the
\* exception of line 67 is never raised.
RECURSIVE get_next_business_day(_, _)
get_next_business_day(current_date, exchange) ==
    LET next == current_date + 1 IN
    IF weekday(next) >= 5 THEN get_next_business_day(next, exchange)
    ELSE IF exchange = "NSE" /\ ~is_trading_day_nse(next)
         THEN get_next_business_day(next, exchange)
    ELSE IF exchange = "BSE" /\ ~is_trading_day_bse(next)
         THEN get_next_business_day(next, exchange)
    ELSE next

(* ------------------------------------------------------------------ *)
(* The mined results an execution can select, and the broker's prices  *)
(* ------------------------------------------------------------------ *)
XTime == <<9, 15>>
YTime == <<9, 45>>

strategy_results ==
    [i \in 1..MaxContinuousDays |->
        [x |-> XTime, y |-> YTime, continuous_days |-> i, exchange |-> "NSE"]]

\* selected_configs of a request: one to MaxDetails distinct results in the
\* order of their ids, equal weights (the remainder on the last one).
RECURSIVE ConfigLists(_)
ConfigLists(n) ==
    IF n = 0 THEN {<<>>}
    ELSE {Append(l, i) : l \in ConfigLists(n - 1), i \in DOMAIN strategy_results}

Increasing(l) == \A i \in 1..(Len(l) - 1) : l[i] < l[i + 1]

WeightOf(n, i) == IF i < n THEN 100 \div n ELSE 100 - (n - 1) * (100 \div n)

SelectedConfigs ==
    UNION {{[i \in 1..n |-> [id |-> l[i], weight_percent |-> WeightOf(n, i)]] :
                l \in {c \in ConfigLists(n) : Increasing(c)}} : n \in 1..MaxDetails}

\* (stimulate_mode, total_money) of a request: a simulated execution with
\* money, and a real one that gives none.
ExecutionModes == {<<TRUE, 1000>>, <<FALSE, NULL>>}

BrokerPrices == {100}

\* The instants of a day the clock visits: 5 s before the buy time, just
\* after the dispatcher's window for it, 5 s before the sell time (past the
\* watchdog's grace period for the buy), and past the grace period for the sell.
Instants ==
    {convert_to_second(XTime) - 5,
     convert_to_second(XTime) + BUFFER + POLL_INTERVAL,
     convert_to_second(YTime) - 5,
     convert_to_second(YTime) + WATCHER_BUFFER + 50}

(* ------------------------------------------------------------------ *)
(* State                                                               *)
(* ------------------------------------------------------------------ *)
VARIABLES
    executions,   \* strategy_executions, by id
    details,      \* strategy_execution_details, by id
    tasks,        \* strategy_execution_tasks, by id (created_at order)
    outputs,      \* strategy_execution_tasks_output rows
    orders,       \* task ids of the orders the broker executed
    now,          \* the wall clock: [day, secs]
    disp,         \* per dispatcher replica: position in run/process_task
    raises,       \* number of store statements that have raised
    call,         \* a call of a function of the code: arguments and result
    job           \* the strategy run worker: position in its loops and results

vars == <<executions, details, tasks, outputs, orders, now, disp, raises, call, job>>

store == <<executions, details, tasks, outputs>>

NowStamp == now.day * SECONDS_PER_DAY + now.secs

Ids(table) == 1..Len(table)

Min(a, b) == IF a < b THEN a ELSE b

NoResult == [success |-> FALSE, shares_bought |-> NULL, price_per_share |-> NULL,
             total_amount |-> NULL]

\* A dispatcher before its first poll; start_time is the second of the day of
\* its last poll.
IdleDispatcher == [pc |-> "idle", tasks |-> <<>>, result |-> NoResult,
                   start_time |-> NULL]

\* No function is being called, and no strategy run is being worked on.
NoCall == [fn |-> "none"]

NoJob == [pc |-> "none"]

FirstInstant == CHOOSE t \in Instants : \A u \in Instants : t <= u

Init ==
    /\ executions = <<>>
    /\ details = <<>>
    /\ tasks = <<>>
    /\ outputs = <<>>
    /\ orders = <<>>
    /\ now = [day |-> 0, secs |-> FirstInstant]
    /\ disp = [r \in Replicas |-> IdleDispatcher]
    /\ raises = 0
    /\ call = NoCall
    /\ job = NoJob

(* ------------------------------------------------------------------ *)
(* The store (db_client.py)                                            *)
(* ------------------------------------------------------------------ *)
\* DBClient.create_strategy_execution: one execution row and one detail row
\* per selected config, in one transaction.
create_strategy_execution(stimulate_mode, total_money, selected_configs) ==
    /\ Len(executions) < MaxExecutions
    /\ executions' = Append(executions,
            [status |-> "queued", stimulate_mode |-> stimulate_mode,
             total_money |-> total_money])
    /\ details' = details \o
            [i \in 1..Len(selected_configs) |->
                [execution_id |-> Len(executions) + 1,
                 strategy_result_id |-> selected_configs[i].id,
                 weight_percent |-> selected_configs[i].weight_percent,
                 status |-> "queued"]]
    /\ UNCHANGED <<tasks, outputs, orders, now, disp, raises, call, job>>

\* DBClient.get_strategy_execution_runs: ids of the executions in a status.
get_strategy_execution_runs(execs, status) ==
    SelectSeq([i \in Ids(execs) |-> i], LAMBDA e : execs[e].status = status)

\* DBClient.get_strategy_execution_details: ids of the details of an execution.
get_strategy_execution_details(dets, execution_id) ==
    SelectSeq([i \in Ids(dets) |-> i], LAMBDA d : dets[d].execution_id = execution_id)

\* DBClient.get_strategy_execution_tasks_by_detail with a status filter.
get_strategy_execution_tasks_by_detail(tsks, execution_detail_id, status) ==
    SelectSeq([i \in Ids(tsks) |-> i],
              LAMBDA t : /\ tsks[t].execution_detail_id = execution_detail_id
                         /\ tsks[t].status = status)

\* store_strategy_execution_task not finding the task's previous_task_id, so
\* that the default of the get, -1, is stored with every task.
store_strategy_execution_task_default_previous(task) ==
    [execution_detail_id |-> task.execution_detail_id,
     timestamp_of_execution |-> task.timestamp_of_execution,
     day_of_execution |-> task.day_of_execution,
     current_money |-> task.current_money,
     current_shares |-> task.current_shares,
     price_during_order |-> NULL,
     order_type |-> task.order_type,
     stimulate_mode |-> task.stimulate_mode,
     x |-> task.x,
     y |-> task.y,
     exchange |-> task.exchange,
     days_remaining |-> task.days_remaining,
     previous_task_id |-> -1,
     status |-> QUEUED_STATUS,
     executed_at |-> NULL,
     error_message |-> NO_MESSAGE]

\* DBClient.store_strategy_execution_task: the row inserted for a task dict;
\* the status column is always 'queued'.
store_strategy_execution_task(task) ==
    [execution_detail_id |-> task.execution_detail_id,
     timestamp_of_execution |-> task.timestamp_of_execution,
     day_of_execution |-> task.day_of_execution,
     current_money |-> task.current_money,
     current_shares |-> task.current_shares,
     price_during_order |-> NULL,
     order_type |-> task.order_type,
     stimulate_mode |-> task.stimulate_mode,
     x |-> task.x,
     y |-> task.y,
     exchange |-> task.exchange,
     days_remaining |-> task.days_remaining,
     previous_task_id |-> task.previous_task_id,
     status |-> QUEUED_STATUS,
     executed_at |-> NULL,
     error_message |-> NO_MESSAGE]

\* change_strategy_execution_task_status with an UPDATE that sets status and
\* error_message only.
change_strategy_execution_task_status_keeps_executed_at(row, status, error_message, stamp) ==
    [row EXCEPT !.status = status, !.error_message = error_message]

\* DBClient.change_strategy_execution_task_status, on the row of the task.
change_strategy_execution_task_status(row, status, error_message, stamp) ==
    [row EXCEPT !.status = status, !.error_message = error_message,
                !.executed_at = stamp]

(* ------------------------------------------------------------------ *)
(* Execution poller and orchestrator                                   *)
(* ------------------------------------------------------------------ *)
\* strategy_execution_runner.create_initial_task: the root task of a detail.
create_initial_task(strategy_result, today) ==
    store_strategy_execution_task(
        [execution_detail_id |-> strategy_result.execution_detail_id,
         timestamp_of_execution |-> convert_to_second(strategy_result.x),
         day_of_execution |-> get_next_business_day(today + 1, strategy_result.exchange),
         current_money |->
            (strategy_result.total_money * strategy_result.weight_percent) \div 100,
         current_shares |-> 0,
         order_type |-> "buy",
         stimulate_mode |-> strategy_result.stimulate_mode,
         x |-> convert_to_second(strategy_result.x),
         y |-> convert_to_second(strategy_result.y),
         exchange |-> strategy_result.exchange,
         days_remaining |-> strategy_result.continuous_days,
         previous_task_id |-> -1])

\* The strategy_results dict process_strategy_execution_job builds for a detail.
StrategyResultOf(execution_id, detail_id) ==
    LET result == strategy_results[details[detail_id].strategy_result_id]
        money == executions[execution_id].total_money
    IN [execution_detail_id |-> detail_id,
        weight_percent |-> details[detail_id].weight_percent,
        stimulate_mode |-> executions[execution_id].stimulate_mode,
        total_money |-> IF money = NULL THEN 0 ELSE money,
        exchange |-> result.exchange,
        x |-> result.x,
        y |-> result.y,
        continuous_days |-> result.continuous_days]

\* The last day the chains of an execution started today are scheduled on
\* (a follow-on buy is one calendar day after its sell).
LastChainDay(execution_id) ==
    LET ds == get_strategy_execution_details(details, execution_id)
        first == get_next_business_day(now.day + 1, "NSE")
        ks == {strategy_results[details[ds[i]].strategy_result_id].continuous_days :
                  i \in 1..Len(ds)}
    IN first + (CHOOSE k \in ks : \A j \in ks : j <= k) - 1

\* The poller without its check for a running execution.
strategy_scheduler_poller_while_running ==
    /\ get_strategy_execution_runs(executions, "queued") # <<>>
    /\ LET execution_id == Head(get_strategy_execution_runs(executions, "queued"))
           ds == get_strategy_execution_details(details, execution_id)
       IN /\ LastChainDay(execution_id) <= MaxDay
          /\ executions' = [executions EXCEPT ![execution_id].status = "running"]
          /\ details' = [d \in Ids(details) |->
                            IF details[d].execution_id = execution_id
                            THEN [details[d] EXCEPT !.status = "running"]
                            ELSE details[d]]
          /\ tasks' = tasks \o
                [i \in 1..Len(ds) |->
                    create_initial_task(StrategyResultOf(execution_id, ds[i]), now.day)]
    /\ UNCHANGED <<outputs, orders, now, disp, raises, call, job>>

\* strategy_execution_poller.strategy_scheduler_poller, one iteration, with
\* process_strategy_execution_job: nothing while an execution is running;
\* else the first queued execution becomes running, each of its details
\* becomes running and gets its root task.
strategy_scheduler_poller ==
    /\ get_strategy_execution_runs(executions, "running") = <<>>
    /\ get_strategy_execution_runs(executions, "queued") # <<>>
    /\ LET execution_id == Head(get_strategy_execution_runs(executions, "queued"))
           ds == get_strategy_execution_details(details, execution_id)
       IN /\ LastChainDay(execution_id) <= MaxDay
          /\ executions' = [executions EXCEPT ![execution_id].status = "running"]
          /\ details' = [d \in Ids(details) |->
                            IF details[d].execution_id = execution_id
                            THEN [details[d] EXCEPT !.status = "running"]
                            ELSE details[d]]
          /\ tasks' = tasks \o
                [i \in 1..Len(ds) |->
                    create_initial_task(StrategyResultOf(execution_id, ds[i]), now.day)]
    /\ UNCHANGED <<outputs, orders, now, disp, raises, call, job>>

\* The same iteration when store_strategy_execution_task raises inside
\* create_initial_task: process_strategy_execution_job has set every detail
\* running, its loop over the strategy results ends at the exception, which
\* it logs, and the details from that one on have no task.
strategy_scheduler_poller_insert_raises ==
    /\ get_strategy_execution_runs(executions, "running") = <<>>
    /\ get_strategy_execution_runs(executions, "queued") # <<>>
    /\ raises < MaxRaises
    /\ raises' = raises + 1
    /\ LET execution_id == Head(get_strategy_execution_runs(executions, "queued"))
           ds == get_strategy_execution_details(details, execution_id)
       IN /\ LastChainDay(execution_id) <= MaxDay
          /\ executions' = [executions EXCEPT ![execution_id].status = "running"]
          /\ details' = [d \in Ids(details) |->
                            IF details[d].execution_id = execution_id
                            THEN [details[d] EXCEPT !.status = "running"]
                            ELSE details[d]]
          /\ \E created \in 0..(Len(ds) - 1) :
                tasks' = tasks \o
                    [i \in 1..created |->
                        create_initial_task(StrategyResultOf(execution_id, ds[i]), now.day)]
    /\ UNCHANGED <<outputs, orders, now, disp, call, job>>

(* ------------------------------------------------------------------ *)
(* Clock                                                               *)
(* ------------------------------------------------------------------ *)
LaterInstants == {t \in Instants : t > now.secs}

\* The clock moves to the next instant; the tasks a dispatcher has fetched
\* are processed before it does (a tick's work ends within POLL_INTERVAL).
AdvanceClock ==
    /\ \A r \in Replicas : disp[r].pc = "idle"
    /\ IF LaterInstants # {}
       THEN now' = [now EXCEPT !.secs =
                        CHOOSE t \in LaterInstants : \A u \in LaterInstants : t <= u]
       ELSE /\ now.day < MaxDay
            /\ now' = [day |-> now.day + 1, secs |-> FirstInstant]
    /\ UNCHANGED <<executions, details, tasks, outputs, orders, disp, raises, call, job>>

(* ------------------------------------------------------------------ *)
(* Broker adapter (broker-middleware)                                  *)
(* ------------------------------------------------------------------ *)
\* OrderService._place_order, BUY: whole shares for the money at the price.
place_buy_order(money_quantity, current_price) ==
    LET shares_to_buy == money_quantity \div current_price IN
    IF money_quantity <= 0 \/ shares_to_buy <= 0 THEN NoResult
    ELSE [success |-> TRUE, shares_bought |-> shares_to_buy,
          price_per_share |-> current_price,
          total_amount |-> shares_to_buy * current_price]

\* OrderService._place_order, SELL: the response has shares_sold, which the
\* dispatcher never reads, and no shares_bought.
place_sell_order(share_quantity, current_price) ==
    IF share_quantity <= 0 THEN NoResult
    ELSE [success |-> TRUE, shares_bought |-> NULL,
          price_per_share |-> current_price,
          total_amount |-> share_quantity * current_price]

\* get_pending_tasks with a query that has no LIMIT clause.
get_pending_tasks_unlimited(status, time_left, time_right, day_of_execution) ==
    SelectSeq([i \in Ids(tasks) |-> i],
              LAMBDA t : /\ tasks[t].status = status
                         /\ tasks[t].timestamp_of_execution # NULL
                         /\ tasks[t].timestamp_of_execution >= time_left
                         /\ tasks[t].timestamp_of_execution <= time_right
                         /\ tasks[t].day_of_execution = day_of_execution)

(* ------------------------------------------------------------------ *)
(* Task dispatcher (strategy_task_handler.py)                          *)
(* ------------------------------------------------------------------ *)
\* TaskHandler.get_pending_tasks: the ids the query returns; `status` is the
\* literal of its WHERE clause.
get_pending_tasks(status, time_left, time_right, day_of_execution) ==
    LET rows == SelectSeq([i \in Ids(tasks) |-> i],
                    LAMBDA t : /\ tasks[t].status = status
                               /\ tasks[t].timestamp_of_execution # NULL
                               /\ tasks[t].timestamp_of_execution >= time_left
                               /\ tasks[t].timestamp_of_execution <= time_right
                               /\ tasks[t].day_of_execution = day_of_execution)
    IN SubSeq(rows, 1, Min(QUERY_LIMIT, Len(rows)))

\* TaskHandler.execute_buy / execute_sell: the broker's possible responses to
\* the request for a task.
execute_order(task) ==
    IF task.order_type = "buy"
    THEN {place_buy_order(task.current_money, p) : p \in BrokerPrices}
    ELSE {place_sell_order(task.current_shares, p) : p \in BrokerPrices}

\* update_task_completed writing the price and the time but not the status.
update_task_completed_keeps_status(tsks, task_id, result, stamp) ==
    [tsks EXCEPT ![task_id].price_during_order = result.price_per_share,
                 ![task_id].executed_at = stamp]

\* TaskHandler.update_task_completed.
update_task_completed(tsks, task_id, result, stamp) ==
    [tsks EXCEPT ![task_id].status = "completed",
                 ![task_id].price_during_order = result.price_per_share,
                 ![task_id].executed_at = stamp]

\* TaskHandler.update_task_failed.
update_task_failed(tsks, task_id, error, stamp) ==
    [tsks EXCEPT ![task_id].status = "failed",
                 ![task_id].error_message = error,
                 ![task_id].executed_at = stamp]

\* TaskHandler.update_strategy_execution_task_output: the row inserted.
update_strategy_execution_task_output(task_id, result) ==
    [task_id |-> task_id, shares_bought |-> result.shares_bought,
     price_per_share |-> result.price_per_share,
     total_amount |-> result.total_amount]

\* create_follow_up_task with the next buy keeping the days_remaining of the
\* sell it follows.
follow_up_task_keeps_days(task_id, task, result) ==
    [execution_detail_id |-> task.execution_detail_id,
     timestamp_of_execution |-> IF task.order_type = "buy" THEN task.y ELSE NULL,
     day_of_execution |-> IF task.order_type = "buy" THEN task.day_of_execution
                          ELSE task.day_of_execution + 1,
     current_money |-> IF task.order_type = "buy" THEN 0 ELSE result.total_amount,
     current_shares |-> IF task.order_type = "buy" THEN result.shares_bought ELSE 0,
     order_type |-> IF task.order_type = "buy" THEN "sell" ELSE "buy",
     stimulate_mode |-> task.stimulate_mode,
     x |-> task.x, y |-> task.y, exchange |-> task.exchange,
     days_remaining |-> task.days_remaining,
     previous_task_id |-> task_id]

\* create_follow_up_task with the sell scheduled at the x time of the chain,
\* the time of its buy.
follow_up_task_sells_at_x(task_id, task, result) ==
    [execution_detail_id |-> task.execution_detail_id,
     timestamp_of_execution |-> IF task.order_type = "buy" THEN task.x ELSE NULL,
     day_of_execution |-> IF task.order_type = "buy" THEN task.day_of_execution
                          ELSE task.day_of_execution + 1,
     current_money |-> IF task.order_type = "buy" THEN 0 ELSE result.total_amount,
     current_shares |-> IF task.order_type = "buy" THEN result.shares_bought ELSE 0,
     order_type |-> IF task.order_type = "buy" THEN "sell" ELSE "buy",
     stimulate_mode |-> task.stimulate_mode,
     x |-> task.x, y |-> task.y, exchange |-> task.exchange,
     days_remaining |-> IF task.order_type = "buy" THEN task.days_remaining
                        ELSE task.days_remaining - 1,
     previous_task_id |-> task_id]

\* TaskHandler.create_follow_up_task: the task dict built after a buy, or
\* after a sell with days remaining.
follow_up_task(task_id, task, result) ==
    IF task.order_type = "buy"
    THEN [execution_detail_id |-> task.execution_detail_id,
          timestamp_of_execution |-> task.y,
          day_of_execution |-> task.day_of_execution,
          current_money |-> 0,
          current_shares |-> result.shares_bought,
          order_type |-> "sell",
          stimulate_mode |-> task.stimulate_mode,
          x |-> task.x, y |-> task.y, exchange |-> task.exchange,
          days_remaining |-> task.days_remaining,
          previous_task_id |-> task_id]
    ELSE [execution_detail_id |-> task.execution_detail_id,
          timestamp_of_execution |-> NULL,
          day_of_execution |-> task.day_of_execution + 1,
          current_money |-> result.total_amount,
          current_shares |-> 0,
          order_type |-> "buy",
          stimulate_mode |-> task.stimulate_mode,
          x |-> task.x, y |-> task.y, exchange |-> task.exchange,
          days_remaining |-> task.days_remaining - 1,
          previous_task_id |-> task_id]

\* The loop of TaskHandler.run moves to the next fetched task.
NextTask(d) ==
    [pc |-> IF Len(d.tasks) > 1 THEN "execute" ELSE "idle",
     tasks |-> Tail(d.tasks), result |-> NoResult, start_time |-> d.start_time]

\* The else branch of process_task (success=false) and the body of its
\* except branch: the task becomes failed and the loop moves on.
TaskFailed(r, error) ==
    /\ tasks' = update_task_failed(tasks, Head(disp[r].tasks), error, NowStamp)
    /\ disp' = [disp EXCEPT ![r] = NextTask(disp[r])]

\* A statement of the try block of process_task raises.
TaskRaised(r, error) ==
    /\ raises < MaxRaises
    /\ raises' = raises + 1
    /\ TaskFailed(r, error)

\* TaskHandler.run, the head of one iteration: the query for the due tasks.
run(r, status) ==
    /\ disp[r].pc = "idle"
    /\ LET fetched == get_pending_tasks(status, now.secs - BUFFER,
                                        now.secs + POLL_INTERVAL, now.day)
       IN disp' = [disp EXCEPT ![r] =
                     [pc |-> IF fetched = <<>> THEN "idle" ELSE "execute",
                      tasks |-> fetched, result |-> NoResult,
                      start_time |-> now.secs]]
    /\ UNCHANGED <<executions, details, tasks, outputs, orders, now, raises, call, job>>

\* process_task, the order: the broker executes it, answers success=false
\* (the request is invalid, or the order is rejected), or the request raises.
process_task_order(r) ==
    /\ disp[r].pc = "execute"
    /\ LET task_id == Head(disp[r].tasks) IN
       \/ \E result \in execute_order(tasks[task_id]) :
            IF result.success
            THEN /\ orders' = Append(orders, task_id)
                 /\ disp' = [disp EXCEPT ![r].pc = "output", ![r].result = result]
                 /\ UNCHANGED <<tasks, raises>>
            ELSE /\ TaskFailed(r, "must be a positive number")
                 /\ UNCHANGED <<orders, raises>>
       \/ /\ TaskFailed(r, "Order REJECTED")
          /\ UNCHANGED <<orders, raises>>
       \/ /\ TaskRaised(r, "request raised")
          /\ UNCHANGED orders
    /\ UNCHANGED <<executions, details, outputs, now, call, job>>

\* process_task, update_strategy_execution_task_output: the insert commits
\* or raises.
process_task_output(r) ==
    /\ disp[r].pc = "output"
    /\ LET task_id == Head(disp[r].tasks) IN
       \/ /\ outputs' = Append(outputs,
                update_strategy_execution_task_output(task_id, disp[r].result))
          /\ disp' = [disp EXCEPT ![r].pc = "complete"]
          /\ UNCHANGED <<tasks, raises>>
       \/ /\ TaskRaised(r, "insert raised")
          /\ UNCHANGED outputs
    /\ UNCHANGED <<executions, details, orders, now, call, job>>

\* process_task, update_task_completed: the update commits or raises.
process_task_completed(r) ==
    /\ disp[r].pc = "complete"
    /\ LET task_id == Head(disp[r].tasks) IN
       \/ /\ tasks' = update_task_completed(tasks, task_id, disp[r].result, NowStamp)
          /\ disp' = [disp EXCEPT ![r].pc = "followup"]
          /\ UNCHANGED raises
       \/ TaskRaised(r, "update raised")
    /\ UNCHANGED <<executions, details, outputs, orders, now, call, job>>

AllDetailsCompleted(dets, execution_id) ==
    \A d \in Ids(dets) :
        dets[d].execution_id = execution_id => dets[d].status = "completed"

\* TaskHandler._complete_execution_detail: the detail becomes completed
\* (first commit); when no detail of the execution is left in another
\* status, the execution becomes completed (second commit). A statement
\* before or after the first commit may raise.
_complete_execution_detail(r, detail_id) ==
    LET dets == [details EXCEPT ![detail_id].status = "completed"]
        execution_id == details[detail_id].execution_id
    IN \/ /\ details' = dets
          /\ executions' =
                IF AllDetailsCompleted(dets, execution_id)
                THEN [executions EXCEPT ![execution_id].status = "completed"]
                ELSE executions
          /\ disp' = [disp EXCEPT ![r] = NextTask(disp[r])]
          /\ UNCHANGED <<tasks, raises>>
       \/ /\ details' = dets
          /\ executions' = executions
          /\ TaskRaised(r, "query raised")
       \/ /\ UNCHANGED <<details, executions>>
          /\ TaskRaised(r, "update raised")

\* process_task, create_follow_up_task: the next task of the chain is
\* inserted, or the detail is completed; a raise fails the task.
process_task_follow_up(r) ==
    /\ disp[r].pc = "followup"
    /\ LET task_id == Head(disp[r].tasks)
           task == tasks[task_id]
       IN IF task.order_type = "sell" /\ ~(task.days_remaining > 1)
          THEN _complete_execution_detail(r, task.execution_detail_id)
          ELSE /\ \/ /\ tasks' = Append(tasks, store_strategy_execution_task(
                                     follow_up_task(task_id, task, disp[r].result)))
                     /\ disp' = [disp EXCEPT ![r] = NextTask(disp[r])]
                     /\ UNCHANGED raises
                  \/ TaskRaised(r, "insert raised")
               /\ UNCHANGED <<executions, details>>
    /\ UNCHANGED <<outputs, orders, now, call, job>>

process_task(r) ==
    \/ process_task_order(r)
    \/ process_task_output(r)
    \/ process_task_completed(r)
    \/ process_task_follow_up(r)

(* ------------------------------------------------------------------ *)
(* Task watchdog (strategy_task_watcher.py)                            *)
(* ------------------------------------------------------------------ *)
\* The three tables the watchdog reads and writes.
DB == [executions |-> executions, details |-> details, tasks |-> tasks]

\* recursively_mark_execution_failed going on to the next detail as soon as it
\* has marked one failed: the queued and running tasks become failed only
\* under a detail that was failed already.
MarkedFailed_detail_or_tasks(db, execution_id, reason, stamp) ==
    [executions |-> [db.executions EXCEPT ![execution_id].status = "failed"],
     details |->
        [d \in Ids(db.details) |->
            IF db.details[d].execution_id = execution_id
            THEN [db.details[d] EXCEPT !.status = "failed"]
            ELSE db.details[d]],
     tasks |->
        [t \in Ids(db.tasks) |->
            IF /\ db.details[db.tasks[t].execution_detail_id].execution_id = execution_id
               /\ db.details[db.tasks[t].execution_detail_id].status = "failed"
               /\ db.tasks[t].status \in {"queued", "running"}
            THEN change_strategy_execution_task_status(db.tasks[t], "failed", reason, stamp)
            ELSE db.tasks[t]]]

\* TaskWatcher.recursively_mark_execution_failed: the execution and every
\* detail of it become failed, and so do its queued and running tasks.
MarkedFailed(db, execution_id, reason, stamp) ==
    [executions |-> [db.executions EXCEPT ![execution_id].status = "failed"],
     details |->
        [d \in Ids(db.details) |->
            IF db.details[d].execution_id = execution_id
            THEN [db.details[d] EXCEPT !.status = "failed"]
            ELSE db.details[d]],
     tasks |->
        [t \in Ids(db.tasks) |->
            IF /\ db.details[db.tasks[t].execution_detail_id].execution_id = execution_id
               /\ db.tasks[t].status \in {"queued", "running"}
            THEN change_strategy_execution_task_status(db.tasks[t], "failed", reason, stamp)
            ELSE db.tasks[t]]]

recursively_mark_execution_failed(store_in, execution_id, reason, stamp) ==
    CHOOSE after \in {MarkedFailed(db, execution_id, reason, stamp) : db \in {store_in}} :
        TRUE

RECURSIVE Concat(_)
Concat(seqs) == IF seqs = <<>> THEN <<>> ELSE Head(seqs) \o Concat(Tail(seqs))

\* TaskWatcher.is_execution_zombie: the tasks it inspects, in the order it
\* inspects them (per running detail, the queued ones and then the running
\* ones).
InspectedTasks(db, execution_id) ==
    LET ds == get_strategy_execution_details(db.details, execution_id) IN
    Concat([i \in 1..Len(ds) |->
        IF db.details[ds[i]].status = "running"
        THEN get_strategy_execution_tasks_by_detail(db.tasks, ds[i], "queued")
             \o get_strategy_execution_tasks_by_detail(db.tasks, ds[i], "running")
        ELSE <<>>])

\* The scheduled time of a task is more than the buffer in the past.
PastBuffer(task, stamp) ==
    stamp > task.day_of_execution * SECONDS_PER_DAY + task.timestamp_of_execution
                + WATCHER_BUFFER

\* The verdict for the tasks inspected: the first one that is late or has
\* no timestamp decides.
ZombieVerdict(db, inspected, stamp) ==
    LET stops == {i \in 1..Len(inspected) :
                    \/ db.tasks[inspected[i]].timestamp_of_execution = NULL
                    \/ PastBuffer(db.tasks[inspected[i]], stamp)}
    IN IF stops = {} THEN "ok"
       ELSE IF db.tasks[inspected[CHOOSE i \in stops : \A j \in stops : i <= j]]
                    .timestamp_of_execution = NULL
            THEN "raise"
            ELSE "zombie"

\* TaskWatcher.is_execution_zombie: "zombie", "ok", or "raise" when int() is
\* applied to the NULL timestamp of a task inspected before any late one.
is_execution_zombie(db, execution_id, stamp) ==
    IF get_strategy_execution_details(db.details, execution_id) = <<>> THEN "zombie"
    ELSE CHOOSE verdict \in
            {ZombieVerdict(db, inspected, stamp) :
                inspected \in {InspectedTasks(db, execution_id)}} : TRUE

\* The rows of the three-table join of the watchdog's queries.
JoinRows(db) ==
    {<<db.details[db.tasks[t].execution_detail_id].execution_id,
       db.tasks[t].execution_detail_id, t>> : t \in Ids(db.tasks)}

RECURSIVE MarkAllFailed(_, _, _, _)
MarkAllFailed(db, execution_ids, reason, stamp) ==
    IF execution_ids = {} THEN db
    ELSE LET e == CHOOSE i \in execution_ids : \A j \in execution_ids : i <= j
         IN MarkAllFailed(recursively_mark_execution_failed(db, e, reason, stamp),
                          execution_ids \ {e}, reason, stamp)

\* handle_1, case 1.1.1: the loop over the running executions; it ends when
\* is_execution_zombie raises.
RECURSIVE CheckRunning(_, _, _)
CheckRunning(db, running, stamp) ==
    IF running = <<>> THEN [db |-> db, raised |-> FALSE]
    ELSE LET verdict == is_execution_zombie(db, Head(running), stamp) IN
         IF verdict = "raise" THEN [db |-> db, raised |-> TRUE]
         ELSE IF verdict = "zombie"
         THEN CheckRunning(
                recursively_mark_execution_failed(db, Head(running),
                    "Task is queued and scheduled time has passed", stamp),
                Tail(running), stamp)
         ELSE CheckRunning(db, Tail(running), stamp)

\* The executions selected by the query of case 1.2: running, with a queued
\* detail that has a task that is not queued.
Case_1_2(db) ==
    {row[1] : row \in {j \in JoinRows(db) :
                /\ db.details[j[2]].status = "queued"
                /\ db.tasks[j[3]].status # "queued"
                /\ db.executions[j[1]].status = "running"}}

\* The executions selected by the query of case 1.3: running, with a
\* completed or failed detail that has a task that is neither.
Case_1_3(db) ==
    {row[1] : row \in {j \in JoinRows(db) :
                /\ db.details[j[2]].status \in {"completed", "failed"}
                /\ db.tasks[j[3]].status \notin {"completed", "failed"}
                /\ db.executions[j[1]].status = "running"}}

\* The executions selected by the query of handle_2: queued, with a detail
\* or a task that is not queued.
Case_2(db) ==
    {row[1] : row \in {j \in JoinRows(db) :
                /\ db.executions[j[1]].status = "queued"
                /\ \/ db.tasks[j[3]].status # "queued"
                   \/ db.details[j[2]].status # "queued"}}

\* The executions selected by the query of handle_3: completed or failed,
\* with a detail or a task that is neither.
Case_3(db) ==
    {row[1] : row \in {j \in JoinRows(db) :
                /\ db.executions[j[1]].status \in {"completed", "failed"}
                /\ \/ db.tasks[j[3]].status \notin {"completed", "failed"}
                   \/ db.details[j[2]].status \notin {"completed", "failed"}}}

\* TaskWatcher.handle_1: zombies of the running executions, then cases 1.2
\* and 1.3; [db, raised].
handle_1(store_in, stamp) ==
    CHOOSE after \in
        {IF checked.raised THEN checked
         ELSE CHOOSE r \in
                {[db |-> MarkAllFailed(db3, Case_1_3(db3),
                            "Case 1.3: Detail completed/failed but task not", stamp),
                  raised |-> FALSE] :
                 db3 \in {MarkAllFailed(db2, Case_1_2(db2),
                            "Case 1.2: Detail queued but task not queued", stamp) :
                          db2 \in {checked.db}}} : TRUE :
         checked \in {CheckRunning(db, get_strategy_execution_runs(db.executions, "running"),
                                   stamp) : db \in {store_in}}} : TRUE

\* TaskWatcher.handle_2.
handle_2(store_in, stamp) ==
    CHOOSE after \in
        {MarkAllFailed(db, Case_2(db),
            "Case 2: Execution queued but details/tasks not queued", stamp) :
         db \in {store_in}} : TRUE

\* TaskWatcher.handle_3.
handle_3(store_in, stamp) ==
    CHOOSE after \in
        {MarkAllFailed(db, Case_3(db),
            "Case 3: Execution completed/failed but details/tasks not", stamp) :
         db \in {store_in}} : TRUE

\* One sweep of TaskWatcher.run: handle_1, handle_2, handle_3; an exception
\* of handle_1 ends the sweep.
Sweep(store_in, stamp) ==
    CHOOSE after \in
        {IF first.raised THEN first.db ELSE handle_3(handle_2(first.db, stamp), stamp) :
         first \in {handle_1(store_in, stamp)}} : TRUE

TaskWatcher_run ==
    /\ \E swept \in {Sweep(DB, NowStamp)} :
        /\ executions' = swept.executions
        /\ details' = swept.details
        /\ tasks' = swept.tasks
    /\ UNCHANGED <<outputs, orders, now, disp, raises, call, job>>

CreateExecution ==
    \E mode \in ExecutionModes, selected_configs \in SelectedConfigs :
        create_strategy_execution(mode[1], mode[2], selected_configs)

\* The system as the code wires it: the dispatcher's query selects the rows
\* whose status is 'pending'.
Next ==
    \/ CreateExecution
    \/ strategy_scheduler_poller
    \/ run(1, PENDING_STATUS)
    \/ TaskWatcher_run
    \/ AdvanceClock

Spec == Init /\ [][Next]_vars

\* The dispatcher run on the rows the orchestrator and the dispatcher write
\* (status 'queued').
NextDispatch ==
    \/ CreateExecution
    \/ strategy_scheduler_poller
    \/ run(1, QUEUED_STATUS)
    \/ process_task(1)
    \/ TaskWatcher_run
    \/ AdvanceClock

SpecDispatch == Init /\ [][NextDispatch]_vars

\* The dispatcher's processes with an orchestrator whose insert of a root
\* task may raise.
NextOrchestrator ==
    \/ NextDispatch
    \/ strategy_scheduler_poller_insert_raises

SpecOrchestrator == Init /\ [][NextOrchestrator]_vars

\* Two dispatcher replicas on the same store, for executions of one detail
\* and with no store statement raising.
CreateSingleDetailExecution ==
    \E mode \in ExecutionModes, selected_configs \in SelectedConfigs :
        /\ Len(selected_configs) = 1
        /\ create_strategy_execution(mode[1], mode[2], selected_configs)

InitReplicas ==
    /\ executions = <<>>
    /\ details = <<>>
    /\ tasks = <<>>
    /\ outputs = <<>>
    /\ orders = <<>>
    /\ now = [day |-> 0, secs |-> FirstInstant]
    /\ disp = [r \in Replicas |-> IdleDispatcher]
    /\ raises = MaxRaises
    /\ call = NoCall
    /\ job = NoJob

NextReplicas ==
    \/ CreateSingleDetailExecution
    \/ strategy_scheduler_poller
    \/ \E r \in Replicas : run(r, QUEUED_STATUS)
    \/ \E r \in Replicas : process_task(r)
    \/ TaskWatcher_run
    \/ AdvanceClock

SpecReplicas == InitReplicas /\ [][NextReplicas]_vars

\* Time after the last day of the model: every later day is day MaxDay + 1,
\* whose instants the clock visits again and again. No task is scheduled on
\* it (the poller starts only the chains that end by MaxDay).
LaterDays ==
    /\ \A r \in Replicas : disp[r].pc = "idle"
    /\ LaterInstants = {}
    /\ now.day >= MaxDay
    /\ now' = [day |-> MaxDay + 1, secs |-> FirstInstant]
    /\ UNCHANGED <<executions, details, tasks, outputs, orders, disp, raises, call, job>>

\* TaskHandler.run sleeps POLL_INTERVAL between two polls, which is shorter
\* than its window: it polls at every instant before the clock moves on.
AdvanceClockAfterPoll ==
    /\ disp[1].start_time = now.secs
    /\ (AdvanceClock \/ LaterDays)

NextPolling ==
    \/ CreateExecution
    \/ strategy_scheduler_poller
    \/ run(1, QUEUED_STATUS)
    \/ process_task(1)
    \/ TaskWatcher_run
    \/ AdvanceClockAfterPoll

\* The dispatcher on queued rows with every loop polling for ever, the
\* dispatcher at every instant.
FairDispatch ==
    /\ Init /\ [][NextPolling]_vars
    /\ WF_vars(strategy_scheduler_poller)
    /\ WF_vars(run(1, QUEUED_STATUS))
    /\ WF_vars(process_task(1))
    /\ WF_vars(TaskWatcher_run)
    /\ WF_vars(AdvanceClockAfterPoll)

\* The watchdog alone on a store that other writers have left in any state
\* (rows force-updated by hand, a poller that failed half way): every
\* combination of statuses of up to MaxExecutions executions, MaxStoredDetails
\* details and MaxStoredTasks tasks.
Statuses == {"queued", "running", "completed", "failed"}

\* When the tasks of a stored state are scheduled, as (day, second): more
\* than the buffer before the sweep, after the sweep, or on an earlier day
\* with no second (a follow-on buy).
StoredSchedules == {<<2, convert_to_second(XTime)>>, <<3, convert_to_second(YTime)>>,
                    <<2, NULL>>}

WatchClock == [day |-> 3, secs |-> FirstInstant]

RECURSIVE SeqsUpTo(_, _)
SeqsUpTo(S, n) ==
    IF n = 0 THEN {<<>>}
    ELSE LET shorter == SeqsUpTo(S, n - 1) IN
         shorter \cup {Append(q, x) : q \in {r \in shorter : Len(r) = n - 1}, x \in S}

StoredExecutions ==
    {q \in SeqsUpTo([status : Statuses, stimulate_mode : {TRUE}, total_money : {1000}],
                    MaxExecutions) : q # <<>>}

\* The details of a stored state: create_strategy_execution inserts the
\* details of an execution with the execution, so they are in the order of
\* their executions.
StoredDetails(execs) ==
    {q \in SeqsUpTo([execution_id : Ids(execs), strategy_result_id : {1},
                     weight_percent : {100}, status : Statuses], MaxStoredDetails) :
        \A i \in 1..(Len(q) - 1) : q[i].execution_id <= q[i + 1].execution_id}

\* A stored task row: a buy as create_initial_task stores it, then updated to
\* its status (completed and failed through change_strategy_execution_task_status).
StoredTask(execution_detail_id, status, schedule) ==
    LET row == store_strategy_execution_task(
                [execution_detail_id |-> execution_detail_id,
                 timestamp_of_execution |-> schedule[2],
                 day_of_execution |-> schedule[1],
                 current_money |-> 1000,
                 current_shares |-> 0,
                 order_type |-> "buy",
                 stimulate_mode |-> TRUE,
                 x |-> convert_to_second(XTime),
                 y |-> convert_to_second(YTime),
                 exchange |-> "NSE",
                 days_remaining |-> 1,
                 previous_task_id |-> -1])
    IN IF status \in {"completed", "failed"}
       THEN change_strategy_execution_task_status(row, status, NO_MESSAGE,
                schedule[1] * SECONDS_PER_DAY)
       ELSE [row EXCEPT !.status = status]

StoredTasks(dets, schedule) ==
    {[i \in Ids(q) |-> StoredTask(q[i][1], q[i][2], schedule)] :
        q \in SeqsUpTo(Ids(dets) \X Statuses, MaxStoredTasks)}

InitWatch ==
    /\ executions \in StoredExecutions
    /\ details \in StoredDetails(executions)
    /\ \E schedule \in StoredSchedules : tasks \in StoredTasks(details, schedule)
    /\ outputs = <<>>
    /\ orders = <<>>
    /\ now = WatchClock
    /\ disp = [r \in Replicas |-> IdleDispatcher]
    /\ raises = 0
    /\ call = NoCall
    /\ job = NoJob

SpecWatch == InitWatch /\ [][TaskWatcher_run]_vars

\* Requests to create an execution whose weights do not add up to 100: each
\* selected_configs above with one percent less on its last config.
ShortConfigs ==
    {[c EXCEPT ![Len(c)].weight_percent = @ - 1] : c \in SelectedConfigs}

RequestedConfigs == SelectedConfigs \cup ShortConfigs

\* A request to create an execution, with whatever weights it carries, as
\* DBClient.create_strategy_execution receives it.
RequestExecution ==
    \E mode \in ExecutionModes, selected_configs \in RequestedConfigs :
        create_strategy_execution(mode[1], mode[2], selected_configs)

NextApi ==
    \/ RequestExecution
    \/ strategy_scheduler_poller
    \/ run(1, QUEUED_STATUS)
    \/ process_task(1)
    \/ TaskWatcher_run
    \/ AdvanceClock

SpecApi == Init /\ [][NextApi]_vars

\* The dispatcher's query alone, on the store of a running execution of one
\* to MaxRoots details that the orchestrator started on day 0: one root
\* buy per detail, of which a tick that was cut short has settled the first
\* `settled` (the order refused, or the buy completed and its sell stored).
QueryExecution == [status |-> "running", stimulate_mode |-> TRUE,
                   total_money |-> 1000 * MaxRoots]

QueryDetails(n) ==
    [i \in 1..n |-> [execution_id |-> 1, strategy_result_id |-> 1,
                     weight_percent |-> 100 \div n, status |-> "running"]]

QueryRoots(n) ==
    [i \in 1..n |-> create_initial_task(
        [execution_detail_id |-> i, weight_percent |-> 100 \div n,
         stimulate_mode |-> QueryExecution.stimulate_mode,
         total_money |-> QueryExecution.total_money,
         exchange |-> strategy_results[1].exchange,
         x |-> strategy_results[1].x, y |-> strategy_results[1].y,
         continuous_days |-> strategy_results[1].continuous_days], 0)]

\* The day the root buys are scheduled on, and the first poll of that day.
QueryDay == QueryRoots(1)[1].day_of_execution

QueryStamp == QueryDay * SECONDS_PER_DAY + FirstInstant

QueryResult(task) == place_buy_order(task.current_money, CHOOSE p \in BrokerPrices : TRUE)

RECURSIVE QuerySettle(_, _, _)
QuerySettle(tsks, outcome, k) ==
    IF k = 0 THEN tsks
    ELSE LET before == QuerySettle(tsks, outcome, k - 1) IN
         IF outcome[k] = "failed"
         THEN update_task_failed(before, k, "Order REJECTED", QueryStamp)
         ELSE Append(update_task_completed(before, k, QueryResult(before[k]), QueryStamp),
                     store_strategy_execution_task(
                        follow_up_task(k, before[k], QueryResult(before[k]))))

InitQuery ==
    \E n \in 1..MaxRoots, settled \in 0..MaxSettled :
      \E outcome \in [1..settled -> {"failed", "completed"}] :
        /\ settled <= n
        /\ executions = <<QueryExecution>>
        /\ details = QueryDetails(n)
        /\ tasks = QuerySettle(QueryRoots(n), outcome, settled)
        /\ outputs = SelectSeq(
                [k \in 1..settled |->
                    update_strategy_execution_task_output(k, QueryResult(QueryRoots(n)[k]))],
                LAMBDA row : outcome[row.task_id] = "completed")
        /\ orders = SelectSeq([k \in 1..settled |-> k],
                              LAMBDA k : outcome[k] = "completed")
        /\ now = [day |-> IF settled = 0 THEN 0 ELSE QueryDay, secs |-> FirstInstant]
        /\ disp = [r \in Replicas |-> IdleDispatcher]
        /\ raises = 0
        /\ call = NoCall
        /\ job = NoJob

NextQuery ==
    \/ run(1, QUEUED_STATUS)
    \/ AdvanceClock

SpecQuery == InitQuery /\ [][NextQuery]_vars

\* The loops on a backlog: two to MaxBacklog executions of one detail each
\* are queued when the poller first polls, on Sunday 2026-03-22.
BacklogExecutions(n) ==
    [i \in 1..n |-> [status |-> "queued", stimulate_mode |-> TRUE, total_money |-> 1000]]

BacklogDetails(n) ==
    [i \in 1..n |-> [execution_id |-> i, strategy_result_id |-> 1,
                     weight_percent |-> 100, status |-> "queued"]]

InitBacklog ==
    \E n \in 2..MaxBacklog :
        /\ executions = BacklogExecutions(n)
        /\ details = BacklogDetails(n)
        /\ tasks = <<>>
        /\ outputs = <<>>
        /\ orders = <<>>
        /\ now = [day |-> -1, secs |-> FirstInstant]
        /\ disp = [r \in Replicas |-> IdleDispatcher]
        /\ raises = 0
        /\ call = NoCall
        /\ job = NoJob

NextBacklog ==
    \/ strategy_scheduler_poller
    \/ run(1, QUEUED_STATUS)
    \/ process_task(1)
    \/ TaskWatcher_run
    \/ AdvanceClock

SpecBacklog == InitBacklog /\ [][NextBacklog]_vars

(* ------------------------------------------------------------------ *)
(* The miner (strategy_config_runner.py)                               *)
(* ------------------------------------------------------------------ *)
\* Vertical gaps are percents; the bisection of [0, 200] halves eleven times,
\* so a gap is held as a whole number of 1/256 percent.
GAP_UNIT == 256

\* x_avg and y_avg of find_best_points, times three.
x_avg3(bar) == bar.high + bar.open + bar.close

y_avg3(bar) == bar.low + bar.open + bar.close

\* (y_avg / x_avg - 1.0) * 100.0 of a day, in percent; the bars of the model
\* make the division exact.
DayReturn(day, x, y) == ((y_avg3(day[y]) - x_avg3(day[x])) * 100) \div x_avg3(day[x])

\* The elements of a set of numbers in increasing order.
RECURSIVE Ascending(_)
Ascending(S) ==
    IF S = {} THEN <<>>
    ELSE LET least == CHOOSE a \in S : \A b \in S : a <= b
         IN <<least>> \o Ascending(S \ {least})

\* find_best_points, lines 62-75: the time points of the first day, and the
\* days left after those with other time points are deleted.
time_points(day_data) == Ascending(DOMAIN day_data[1])

AcceptedDays(day_data) ==
    SelectSeq(day_data, LAMBDA day : DOMAIN day = DOMAIN day_data[1])

\* The (x, y) positions scored, in the order of the two loops.
RECURSIVE ScoredPairs(_, _, _)
ScoredPairs(n, horizontal_gap, position) ==
    IF position >= n * n THEN <<>>
    ELSE LET x == position \div n
             y == position % n
         IN (IF y - x < horizontal_gap THEN <<>> ELSE << <<x + 1, y + 1>> >>)
            \o ScoredPairs(n, horizontal_gap, position + 1)

NewWindow == [window |-> <<>>, window_sum |-> 0, exceeded |-> 0, profit_days |-> 0,
              total_count |-> 0, average |-> 0]

\* The rolling window never letting go of a day: the sum of a window is the
\* sum of all the days so far.
RollDay_keeps_sum(w, return, vertical_gap, continuous_days) ==
    LET window == IF Len(w.window) = continuous_days
                  THEN Tail(w.window) \o <<return>>
                  ELSE Append(w.window, return)
        window_sum == w.window_sum + return
    IN IF Len(window) = continuous_days
       THEN [window |-> Tail(window),
             window_sum |-> window_sum,
             exceeded |-> w.exceeded
                            + (IF window_sum * GAP_UNIT > vertical_gap THEN 1 ELSE 0),
             profit_days |-> w.profit_days + (IF window_sum > 0 THEN 1 ELSE 0),
             total_count |-> w.total_count + 1,
             average |-> w.average + window_sum]
       ELSE [w EXCEPT !.window = window, !.window_sum = window_sum]

\* One pass of the loop over the days (lines 93-109): the day's return enters
\* the deque; a full window is counted and its oldest day leaves.
RollDay(w, return, vertical_gap, continuous_days) ==
    LET window == IF Len(w.window) = continuous_days
                  THEN Tail(w.window) \o <<return>>
                  ELSE Append(w.window, return)
        window_sum == w.window_sum + return
    IN IF Len(window) = continuous_days
       THEN [window |-> Tail(window),
             window_sum |-> window_sum - Head(window),
             exceeded |-> w.exceeded
                            + (IF window_sum * GAP_UNIT > vertical_gap THEN 1 ELSE 0),
             profit_days |-> w.profit_days + (IF window_sum > 0 THEN 1 ELSE 0),
             total_count |-> w.total_count + 1,
             average |-> w.average + window_sum]
       ELSE [w EXCEPT !.window = window, !.window_sum = window_sum]

RECURSIVE RollDays(_, _, _, _)
RollDays(w, returns, vertical_gap, continuous_days) ==
    IF returns = <<>> THEN w
    ELSE RollDays(RollDay(w, Head(returns), vertical_gap, continuous_days),
                  Tail(returns), vertical_gap, continuous_days)

\* The counts of one (x, y); average is the sum of the window sums, which
\* the code divides by total_count.
Score(days, x, y, vertical_gap, continuous_days) ==
    LET w == RollDays(NewWindow, [i \in 1..Len(days) |-> DayReturn(days[i], x, y)],
                      vertical_gap, continuous_days)
    IN [exceeded |-> w.exceeded, profit_days |-> w.profit_days,
        total_count |-> w.total_count, average |-> w.average, x |-> x, y |-> y]

\* scores.sort(key=(exceeded, average), reverse=True): the sort is stable, so
\* equal scores keep the order of the loops.
Before(a, b) ==
    \/ a.exceeded > b.exceeded
    \/ a.exceeded = b.exceeded /\ a.average > b.average

RECURSIVE SortScores(_)
SortScores(scores) ==
    IF scores = <<>> THEN <<>>
    ELSE LET tops == {i \in 1..Len(scores) :
                        \A j \in 1..Len(scores) : ~Before(scores[j], scores[i])}
             first == CHOOSE i \in tops : \A j \in tops : i <= j
         IN <<scores[first]>>
            \o SortScores([i \in 1..(Len(scores) - 1) |->
                                IF i < first THEN scores[i] ELSE scores[i + 1]])

\* find_best_points: the sorted scores, or the exception it ends with
\* (list(...)[0] of no day; a division by a total_count of zero).
find_best_points(day_data, vertical_gap, horizontal_gap, continuous_days) ==
    IF day_data = <<>> THEN [raised |-> "IndexError", scores |-> <<>>]
    ELSE LET points == time_points(day_data)
             days == AcceptedDays(day_data)
             pairs == ScoredPairs(Len(points), horizontal_gap, 0)
             scores == [i \in 1..Len(pairs) |->
                            Score(days, points[pairs[i][1]], points[pairs[i][2]],
                                  vertical_gap, continuous_days)]
         IN IF \E i \in 1..Len(scores) : scores[i].total_count = 0
            THEN [raised |-> "ZeroDivisionError", scores |-> <<>>]
            ELSE [raised |-> "no", scores |-> SortScores(scores)]

\* The bars of a time point: every price of the bar is the same. The first
\* time point of a day is at 100, the second at one of ClosingPrices.
FlatBar(price) == [open |-> price, high |-> price, low |-> price, close |-> price]

ClosingPrices == {99, 100, 102}

Days ==
    {[point \in {1} |-> FlatBar(100)]}
    \cup {[point \in {1, 2} |-> IF point = 1 THEN FlatBar(100) ELSE FlatBar(price)] :
            price \in ClosingPrices}

DayDatas == SeqsUpTo(Days, MaxDays)

VerticalGaps == {0, GAP_UNIT, (3 * GAP_UNIT) \div 2}

HorizontalGaps == {0, 1}

InitMiner ==
    /\ executions = <<>>
    /\ details = <<>>
    /\ tasks = <<>>
    /\ outputs = <<>>
    /\ orders = <<>>
    /\ now = [day |-> 0, secs |-> FirstInstant]
    /\ disp = [r \in Replicas |-> IdleDispatcher]
    /\ raises = 0
    /\ \E day_data \in DayDatas, vertical_gap \in VerticalGaps,
          horizontal_gap \in HorizontalGaps, continuous_days \in 1..MaxWindow :
            call = [fn |-> "find_best_points", day_data |-> day_data,
                    vertical_gap |-> vertical_gap, horizontal_gap |-> horizontal_gap,
                    continuous_days |-> continuous_days, returned |-> FALSE,
                    result |-> NULL]
    /\ job = NoJob

CallFindBestPoints ==
    /\ call.fn = "find_best_points"
    /\ ~call.returned
    /\ call' = [call EXCEPT !.returned = TRUE,
                            !.result = find_best_points(call.day_data, call.vertical_gap,
                                            call.horizontal_gap, call.continuous_days)]
    /\ UNCHANGED <<executions, details, tasks, outputs, orders, now, disp, raises, job>>

SpecMiner == InitMiner /\ [][CallFindBestPoints]_vars

(* ------------------------------------------------------------------ *)
(* The run worker (strategy_config_poller.py and                       *)
(* process_strategy_scheduler_job)                                     *)
(* ------------------------------------------------------------------ *)
MAX_ITR == 100
R_VGAP == 200

\* r_vgap - l_vgap > 0.1, the gaps in 1/GAP_UNIT percent.
WiderThanTolerance(l_vgap, r_vgap) == (r_vgap - l_vgap) * 10 > GAP_UNIT

\* current_point['exceed_prob'] >= threshold_prob, threshold_prob = 0.8.
MeetsThreshold(point) == point.exceeded * 10 >= point.total_count * 8

\* The stocks of the two loops in order, each with its exchange.
StocksOf(config) ==
    [i \in 1..Len(config.nse_stocks) |-> [symbol |-> config.nse_stocks[i], exchange |-> "NSE"]]
    \o [i \in 1..Len(config.bse_stocks) |-> [symbol |-> config.bse_stocks[i], exchange |-> "BSE"]]

\* best_valid_point = None.
NoPoint == [symbol |-> "None"]

\* The variables one bisection starts from (lines 516-521).
NewSearch(j) ==
    [j EXCEPT !.l_vgap = 0, !.r_vgap = R_VGAP * GAP_UNIT, !.max_itr = MAX_ITR,
              !.best_valid_point = NoPoint]

\* The condition the while loop runs on without its tolerance: it goes on
\* until the bounds meet.
SearchContinues_until_bounds_meet(j) == j.r_vgap - j.l_vgap > 0 /\ j.max_itr > 0

\* The condition of the while loop (line 523).
SearchContinues(j) == WiderThanTolerance(j.l_vgap, j.r_vgap) /\ j.max_itr > 0

v_gap(j) == (j.l_vgap + j.r_vgap) \div 2

\* find_best_points_for_symbol on the bars the store holds for the symbol.
find_best_points_for_symbol(j) ==
    find_best_points(j.bars[StocksOf(j.config)[j.stock].symbol], v_gap(j),
                     j.config.horizontal_gaps[j.h_gap], j.config.continuous_days[j.c_days])

\* decorate_points of the top point.
decorate_points(point, j) ==
    [exceeded |-> point.exceeded, profit_days |-> point.profit_days,
     total_count |-> point.total_count, average |-> point.average,
     x |-> point.x, y |-> point.y,
     exchange |-> StocksOf(j.config)[j.stock].exchange,
     symbol |-> StocksOf(j.config)[j.stock].symbol,
     vertical_gap |-> v_gap(j),
     horizontal_gap |-> j.config.horizontal_gaps[j.h_gap],
     continuous_days |-> j.config.continuous_days[j.c_days]]

\* An except clause that lets the exception end the run as failed.
search_except_fails_run(j) ==
    [j EXCEPT !.pc = "done", !.status = "failed", !.error = "find_best_points_for_symbol"]

\* The except clause of the loop (lines 556-559).
search_except(j) == [j EXCEPT !.max_itr = @ - 1]

\* The body of the try keeping the latest point, whether or not it meets the
\* threshold (what the code does with best_point).
search_try_keeps_latest(j, points) ==
    IF points # <<>>
    THEN LET current_point == decorate_points(points[1], j)
         IN IF MeetsThreshold(current_point)
            THEN [j EXCEPT !.best_valid_point = current_point, !.l_vgap = v_gap(j),
                           !.syncing_needed = FALSE, !.max_itr = @ - 1]
            ELSE [j EXCEPT !.best_valid_point = current_point, !.r_vgap = v_gap(j),
                           !.syncing_needed = FALSE, !.max_itr = @ - 1]
    ELSE [j EXCEPT !.syncing_needed = FALSE, !.max_itr = @ - 1]

\* The body of the try once find_best_points_for_symbol has returned
\* (lines 538-555).
search_try(j, points) ==
    IF points # <<>>
    THEN LET current_point == decorate_points(points[1], j)
         IN IF MeetsThreshold(current_point)
            THEN [j EXCEPT !.best_valid_point = current_point, !.l_vgap = v_gap(j),
                           !.syncing_needed = FALSE, !.max_itr = @ - 1]
            ELSE [j EXCEPT !.r_vgap = v_gap(j),
                           !.syncing_needed = FALSE, !.max_itr = @ - 1]
    ELSE [j EXCEPT !.syncing_needed = FALSE, !.max_itr = @ - 1]

\* key=(exceed_prob, average), reverse=True; exceed_prob is
\* exceeded / total_count and average the sum of the sums / total_count.
BetterPoint(a, b) ==
    \/ a.exceeded * b.total_count > b.exceeded * a.total_count
    \/ /\ a.exceeded * b.total_count = b.exceeded * a.total_count
       /\ a.average * b.total_count > b.average * a.total_count

RECURSIVE SortPoints(_)
SortPoints(points) ==
    IF points = <<>> THEN <<>>
    ELSE LET tops == {i \in 1..Len(points) :
                        \A k \in 1..Len(points) : ~BetterPoint(points[k], points[i])}
             first == CHOOSE i \in tops : \A k \in tops : i <= k
         IN <<points[first]>>
            \o SortPoints([i \in 1..(Len(points) - 1) |->
                                IF i < first THEN points[i] ELSE points[i + 1]])

\* The end of one bisection (lines 560-564): the best valid point joins the
\* candidates; after the last horizontal gap the candidates are sorted and the
\* first joins master_data; then the next gap, window length or stock, whose
\* loops start from new candidates.
search_exit(j) ==
    LET candidate_points == IF j.best_valid_point # NoPoint
                            THEN Append(j.candidate_points, j.best_valid_point)
                            ELSE j.candidate_points
        master_data == IF Len(candidate_points) > 0
                       THEN Append(j.master_data, SortPoints(candidate_points)[1])
                       ELSE j.master_data
    IN IF j.h_gap < Len(j.config.horizontal_gaps)
       THEN NewSearch([j EXCEPT !.candidate_points = candidate_points, !.h_gap = @ + 1])
       ELSE IF j.c_days < Len(j.config.continuous_days)
       THEN NewSearch([j EXCEPT !.candidate_points = <<>>, !.master_data = master_data,
                                !.h_gap = 1, !.c_days = @ + 1])
       ELSE IF j.stock < Len(StocksOf(j.config))
       THEN NewSearch([j EXCEPT !.candidate_points = <<>>, !.master_data = master_data,
                                !.h_gap = 1, !.c_days = 1, !.stock = @ + 1,
                                !.syncing_needed = TRUE])
       ELSE [j EXCEPT !.candidate_points = SortPoints(candidate_points),
                      !.master_data = master_data, !.pc = "save"]

\* The run worker takes a queued run: it is set running and the job starts
\* with the first stock, window length and horizontal gap.
PollRun ==
    /\ job.pc = "queued"
    /\ job' = NewSearch([job EXCEPT !.pc = "search", !.status = "running"])
    /\ UNCHANGED <<executions, details, tasks, outputs, orders, now, disp, raises, call>>

\* One pass of the while loop.
SearchIteration ==
    /\ job.pc = "search"
    /\ SearchContinues(job)
    /\ LET points == find_best_points_for_symbol(job)
       IN job' = IF points.raised # "no" THEN search_except(job)
                 ELSE search_try(job, points.scores)
    /\ UNCHANGED <<executions, details, tasks, outputs, orders, now, disp, raises, call>>

\* One pass of the while loop in which the sync with the data ingester
\* raises.
SearchIterationSyncRaises ==
    /\ job.pc = "search"
    /\ SearchContinues(job)
    /\ job.syncing_needed
    /\ raises < MaxRaises
    /\ raises' = raises + 1
    /\ job' = search_except(job)
    /\ UNCHANGED <<executions, details, tasks, outputs, orders, now, disp, call>>

SearchExit ==
    /\ job.pc = "search"
    /\ ~SearchContinues(job)
    /\ job' = search_exit(job)
    /\ UNCHANGED <<executions, details, tasks, outputs, orders, now, disp, raises, call>>

\* The end of the job (lines 625-640) and of the poller's try (line 67):
\* master_data is sorted and saved when it is not empty, and the run is set
\* completed.
FinishRun ==
    /\ job.pc = "save"
    /\ job' = [job EXCEPT !.master_data = SortPoints(@),
                          !.results = SortPoints(job.master_data),
                          !.pc = "done", !.status = "completed"]
    /\ UNCHANGED <<executions, details, tasks, outputs, orders, now, disp, raises, call>>

\* save_strategy_results raises: the job re-raises, the poller logs the
\* error and sets the run failed (lines 70-72).
FinishRunSaveRaises ==
    /\ job.pc = "save"
    /\ job.master_data # <<>>
    /\ raises < MaxRaises
    /\ raises' = raises + 1
    /\ job' = [job EXCEPT !.master_data = SortPoints(@),
                          !.pc = "done", !.status = "failed",
                          !.error = "save_strategy_results"]
    /\ UNCHANGED <<executions, details, tasks, outputs, orders, now, disp, call>>

\* The bars of the runs: three time points a day, at 100, at 125 and at one
\* of LastPrices, so that every return is a whole percent.
LastPrices == {110, 175}

SearchDay(price) ==
    [point \in {1, 2, 3} |->
        FlatBar(IF point = 1 THEN 100 ELSE IF point = 2 THEN 125 ELSE price)]

SearchDayDatas == SeqsUpTo({SearchDay(price) : price \in LastPrices}, MaxDays)

SteadyDayDatas == {<<>>, <<SearchDay(175), SearchDay(175)>>}

RunConfigs ==
    {[horizontal_gaps |-> horizontal_gaps, continuous_days |-> <<continuous_days>>,
      nse_stocks |-> <<"RELIANCE">>, bse_stocks |-> bse_stocks] :
        horizontal_gaps \in {<<1, 2>>, <<3>>},
        continuous_days \in 1..MaxWindow,
        bse_stocks \in {<<>>, <<"HDFCBANK">>}}

InitSearch ==
    /\ executions = <<>>
    /\ details = <<>>
    /\ tasks = <<>>
    /\ outputs = <<>>
    /\ orders = <<>>
    /\ now = [day |-> 0, secs |-> FirstInstant]
    /\ disp = [r \in Replicas |-> IdleDispatcher]
    /\ raises = 0
    /\ call = NoCall
    /\ \E config \in RunConfigs, reliance \in SearchDayDatas, hdfcbank \in SteadyDayDatas :
        /\ config.bse_stocks = <<>> => hdfcbank = <<>>
        /\ job = [pc |-> "queued", status |-> "queued", config |-> config,
                  bars |-> [symbol \in {"RELIANCE", "HDFCBANK"} |->
                                IF symbol = "RELIANCE" THEN reliance ELSE hdfcbank],
                  stock |-> 1, c_days |-> 1, h_gap |-> 1,
                  l_vgap |-> 0, r_vgap |-> R_VGAP * GAP_UNIT, max_itr |-> MAX_ITR,
                  best_valid_point |-> NoPoint, candidate_points |-> <<>>,
                  master_data |-> <<>>, syncing_needed |-> TRUE, results |-> <<>>,
                  error |-> "None"]

NextSearch ==
    \/ PollRun
    \/ SearchIteration
    \/ SearchIterationSyncRaises
    \/ SearchExit
    \/ FinishRun
    \/ FinishRunSaveRaises

SpecSearch == InitSearch /\ [][NextSearch]_vars

(* ------------------------------------------------------------------ *)
(* The run poller (strategy_config_poller.py)                          *)
(* ------------------------------------------------------------------ *)
\* The poller over the strategy_runs table. Here job holds the table (runs),
\* the rows of strategy_results in the order of their insertion (results)
\* and the position of each poller process (worker); the search of a run is
\* taken as a whole, by its outcome. Of a run, `picked` records that a poller
\* has entered the loop body for it, `miners` which pollers have called
\* process_strategy_scheduler_job for it and `outcome` how the last call
\* ended.
IdleRunWorker == [pc |-> "idle", pending_jobs |-> <<>>]

\* DBClient.create_strategy_run: the row, with when_added the time of the
\* insert (one run a second at most).
create_strategy_run(runs) ==
    Append(runs, [status |-> "queued", when_added |-> Len(runs) + 1,
                  picked |-> FALSE, miners |-> {}, outcome |-> "none"])

RECURSIVE Reversed(_)
Reversed(q) == IF q = <<>> THEN <<>> ELSE Append(Reversed(Tail(q)), Head(q))

\* DBClient.get_strategy_runs(status): the ids of the runs in the status,
\* ORDER BY when_added DESC, LIMIT 20 (rows are stored in when_added order).
get_strategy_runs(runs, status) ==
    LET rows == Reversed(SelectSeq([i \in Ids(runs) |-> i],
                                   LAMBDA i : runs[i].status = status))
    IN SubSeq(rows, 1, Min(RUNS_LIMIT, Len(rows)))

\* update_strategy_run_status with an UPDATE that matches no row.
update_strategy_run_status_no_row(runs, strategy_id, status) == runs

\* DBClient.update_strategy_run_status: an UPDATE by id, whatever the status
\* of the row is.
update_strategy_run_status(runs, strategy_id, status) ==
    [runs EXCEPT ![strategy_id].status = status]

\* DBClient.save_strategy_results: the rows of one executemany.
save_strategy_results(strategy_id, count) ==
    [i \in 1..count |-> [strategy_id |-> strategy_id, rank |-> i]]

\* The lengths of master_data at the end of the jobs: no candidate, one, and
\* one for each of MaxRows pairs of a stock and a window length.
JobRowCounts == {0, 1, MaxRows}

\* A request of the API stores a run.
CreateRun ==
    /\ Len(job.runs) < MaxRuns
    /\ job' = [job EXCEPT !.runs = create_strategy_run(@)]
    /\ UNCHANGED <<executions, details, tasks, outputs, orders, now, disp, raises, call>>

\* The head of an iteration of the poller's while loop (lines 51-53).
RunPoll(w) ==
    /\ job.worker[w].pc = "idle"
    /\ LET pending_jobs == get_strategy_runs(job.runs, "queued")
       IN /\ pending_jobs # <<>>
          /\ job' = [job EXCEPT !.worker[w] =
                        [pc |-> "running", pending_jobs |-> pending_jobs]]
    /\ UNCHANGED <<executions, details, tasks, outputs, orders, now, disp, raises, call>>

\* The for loop moves to the next run, or ends.
NextRun(worker) ==
    [pc |-> IF Len(worker.pending_jobs) > 1 THEN "running" ELSE "idle",
     pending_jobs |-> Tail(worker.pending_jobs)]

\* An exception leaves the for loop: the outer except logs it and the while
\* loop sleeps.
LoopAborted == IdleRunWorker

\* Line 63: the run is set running.
RunSetRunning(w) ==
    /\ job.worker[w].pc = "running"
    /\ LET strategy_id == Head(job.worker[w].pending_jobs)
       IN \/ /\ job' = [job EXCEPT
                    !.runs = [update_strategy_run_status(@, strategy_id, "running")
                                EXCEPT ![strategy_id].picked = TRUE],
                    !.worker[w].pc = "job"]
             /\ UNCHANGED raises
          \/ /\ raises < MaxRaises
             /\ raises' = raises + 1
             /\ job' = [job EXCEPT !.runs[strategy_id].picked = TRUE,
                                   !.worker[w].pc = "failed"]
    /\ UNCHANGED <<executions, details, tasks, outputs, orders, now, disp, call>>

\* Line 64, process_strategy_scheduler_job: it saves master_data in one call
\* of save_strategy_results when it is not empty and returns, or it raises
\* (the rows of a save that raises are rolled back).
RunJob(w) ==
    /\ job.worker[w].pc = "job"
    /\ LET strategy_id == Head(job.worker[w].pending_jobs)
       IN \/ \E count \in JobRowCounts :
                job' = [job EXCEPT
                    !.results = @ \o save_strategy_results(strategy_id, count),
                    !.runs[strategy_id].miners = @ \cup {w},
                    !.runs[strategy_id].outcome = "returned",
                    !.worker[w].pc = "completed"]
          \/ job' = [job EXCEPT
                    !.runs[strategy_id].miners = @ \cup {w},
                    !.runs[strategy_id].outcome = "raised",
                    !.worker[w].pc = "failed"]
    /\ UNCHANGED <<executions, details, tasks, outputs, orders, now, disp, raises, call>>

\* Line 67: the run is set completed.
RunSetCompleted(w) ==
    /\ job.worker[w].pc = "completed"
    /\ LET strategy_id == Head(job.worker[w].pending_jobs)
       IN \/ /\ job' = [job EXCEPT
                    !.runs = update_strategy_run_status(@, strategy_id, "completed"),
                    !.worker[w] = NextRun(@)]
             /\ UNCHANGED raises
          \/ /\ raises < MaxRaises
             /\ raises' = raises + 1
             /\ job' = [job EXCEPT !.worker[w].pc = "failed"]
    /\ UNCHANGED <<executions, details, tasks, outputs, orders, now, disp, call>>

\* Lines 70-72, the except clause of the loop body: the run is set failed.
RunSetFailed(w) ==
    /\ job.worker[w].pc = "failed"
    /\ LET strategy_id == Head(job.worker[w].pending_jobs)
       IN \/ /\ job' = [job EXCEPT
                    !.runs = update_strategy_run_status(@, strategy_id, "failed"),
                    !.worker[w] = NextRun(@)]
             /\ UNCHANGED raises
          \/ /\ raises < MaxRaises
             /\ raises' = raises + 1
             /\ job' = [job EXCEPT !.worker[w] = LoopAborted]
    /\ UNCHANGED <<executions, details, tasks, outputs, orders, now, disp, call>>

\* strategy_scheduler_poller of strategy_config_poller.py, one process.
RunPoller(w) ==
    \/ RunPoll(w)
    \/ RunSetRunning(w)
    \/ RunJob(w)
    \/ RunSetCompleted(w)
    \/ RunSetFailed(w)

InitRuns ==
    /\ executions = <<>>
    /\ details = <<>>
    /\ tasks = <<>>
    /\ outputs = <<>>
    /\ orders = <<>>
    /\ now = [day |-> 0, secs |-> FirstInstant]
    /\ disp = [r \in Replicas |-> IdleDispatcher]
    /\ raises = 0
    /\ call = NoCall
    /\ job = [pc |-> "runs", runs |-> <<>>, results |-> <<>>,
              worker |-> [w \in Replicas |-> IdleRunWorker]]

NextRuns ==
    \/ CreateRun
    \/ RunPoller(1)

\* One poller process.
SpecRuns == InitRuns /\ [][NextRuns]_vars

NextRunWorkers ==
    \/ CreateRun
    \/ RunPoller(1)
    \/ RunPoller(2)

\* Two poller processes on the same table.
SpecRunWorkers == InitRuns /\ [][NextRunWorkers]_vars

\* Calls of get_next_business_day: any date from two days before Friday
\* 2026-03-13 to MaxDate, for NSE, BSE and an exchange with no holiday list.
Friday13March == -10

CalendarDates == (Friday13March - 2)..MaxDate

Exchanges == {"NSE", "BSE", "MCX"}

InitCalendar ==
    /\ executions = <<>>
    /\ details = <<>>
    /\ tasks = <<>>
    /\ outputs = <<>>
    /\ orders = <<>>
    /\ now = [day |-> 0, secs |-> FirstInstant]
    /\ disp = [r \in Replicas |-> IdleDispatcher]
    /\ raises = 0
    /\ \E current_date \in CalendarDates, exchange \in Exchanges :
            call = [fn |-> "get_next_business_day", current_date |-> current_date,
                    exchange |-> exchange, returned |-> FALSE, result |-> NULL]
    /\ job = NoJob

CallNextBusinessDay ==
    /\ call.fn = "get_next_business_day"
    /\ ~call.returned
    /\ call' = [call EXCEPT !.returned = TRUE,
                            !.result = get_next_business_day(call.current_date,
                                                             call.exchange)]
    /\ UNCHANGED <<executions, details, tasks, outputs, orders, now, disp, raises, job>>

SpecCalendar == InitCalendar /\ [][CallNextBusinessDay]_vars

(* ------------------------------------------------------------------ *)
(* Properties                                                          *)
(* ------------------------------------------------------------------ *)
\* No dispatcher is inside an iteration of its loop.
Quiescent == \A r \in Replicas : disp[r].pc = "idle"

OutputRows(task_id) == {i \in Ids(outputs) : outputs[i].task_id = task_id}

Followers(task_id) == {t \in Ids(tasks) : tasks[t].previous_task_id = task_id}

DetailsOf(execution_id) ==
    {d \in Ids(details) : details[d].execution_id = execution_id}

TasksOf(detail_id) == {t \in Ids(tasks) : tasks[t].execution_detail_id = detail_id}

Terminal(status) == status \in {"completed", "failed"}

\* C1: between operations, a completed task has a price_during_order and
\* exactly one output row, and a queued, running or failed task has no
\* output row.
C1_OutputRowIffCompleted ==
    Quiescent =>
        \A t \in Ids(tasks) :
            /\ tasks[t].status = "completed" =>
                    /\ tasks[t].price_during_order # NULL
                    /\ Cardinality(OutputRows(t)) = 1
            /\ tasks[t].status \in {"queued", "running", "failed"} =>
                    OutputRows(t) = {}

\* The queued tasks of today whose time is in the dispatcher's window, the
\* first QUERY_LIMIT of them in creation order.
DueQueuedTasks ==
    LET due == SelectSeq([i \in Ids(tasks) |-> i],
                    LAMBDA t : /\ tasks[t].status = "queued"
                               /\ tasks[t].day_of_execution = now.day
                               /\ tasks[t].timestamp_of_execution # NULL
                               /\ tasks[t].timestamp_of_execution >= now.secs - BUFFER
                               /\ tasks[t].timestamp_of_execution <= now.secs + POLL_INTERVAL)
    IN SubSeq(due, 1, Min(QUERY_LIMIT, Len(due)))

\* C2: a tick of the dispatcher selects every queued task of today whose
\* time is in [now - BUFFER, now + POLL_INTERVAL] (the first 10 of them).
C2_QueuedDueTaskSelected ==
    [][run(1, PENDING_STATUS) => disp'[1].tasks = DueQueuedTasks]_vars

\* The messages update_task_failed is called with by process_task.
DispatcherErrors ==
    {"must be a positive number", "Order REJECTED", "request raised", "insert raised",
     "update raised", "query raised"}

FailedByDispatcher(t) ==
    /\ tasks[t].status = "failed"
    /\ tasks[t].error_message \in DispatcherErrors

\* The chain of a detail is complete: 2k tasks, the last one a sell with
\* one day remaining, the detail completed.
ChainDone(detail_id) ==
    /\ details[detail_id].status = "completed"
    /\ Cardinality(TasksOf(detail_id)) =
            2 * strategy_results[details[detail_id].strategy_result_id].continuous_days
    /\ \E t \in TasksOf(detail_id) :
            /\ Followers(t) = {}
            /\ tasks[t].order_type = "sell"
            /\ tasks[t].days_remaining = 1

\* C3: an execution of one detail that has been started eventually has its
\* chain of 2k tasks done and is completed, with its detail, unless the
\* broker refuses an order or a statement of the dispatcher raises.
C3_ChainEventuallyCompletes ==
    \A e \in 1..MaxExecutions :
        (/\ e \in Ids(executions)
         /\ executions[e].status = "running"
         /\ Cardinality(DetailsOf(e)) = 1)
        ~> (/\ e \in Ids(executions)
            /\ \/ /\ executions[e].status = "completed"
                  /\ \A d \in DetailsOf(e) : ChainDone(d)
               \/ \E d \in DetailsOf(e) : \E t \in TasksOf(d) : FailedByDispatcher(t))

\* C4: along previous_task_id the order types alternate from a root buy,
\* days_remaining is one less at each next buy (and unchanged from a buy to
\* its sell), and a sell with days_remaining = 1 has no successor.
C4_ChainAlternates ==
    \A t \in Ids(tasks) :
        LET prev == tasks[t].previous_task_id IN
        /\ prev = -1 => tasks[t].order_type = "buy"
        /\ prev # -1 =>
            /\ prev \in Ids(tasks)
            /\ prev < t
            /\ tasks[prev].execution_detail_id = tasks[t].execution_detail_id
            /\ tasks[prev].order_type # tasks[t].order_type
            /\ tasks[t].order_type = "sell" =>
                    tasks[t].days_remaining = tasks[prev].days_remaining
            /\ tasks[t].order_type = "buy" =>
                    /\ tasks[prev].days_remaining > 1
                    /\ tasks[t].days_remaining = tasks[prev].days_remaining - 1
                    /\ tasks[t].days_remaining >= 1

\* A chain has reached its second buy, and another chain has ended with a
\* completed sell that had one day remaining.
C4_Witness ==
    /\ \E t \in Ids(tasks) :
        /\ tasks[t].order_type = "buy"
        /\ tasks[t].previous_task_id # -1
        /\ tasks[tasks[t].previous_task_id].order_type = "sell"
        /\ tasks[tasks[tasks[t].previous_task_id].previous_task_id].order_type = "buy"
    /\ \E t \in Ids(tasks) :
        /\ tasks[t].order_type = "sell"
        /\ tasks[t].days_remaining = 1
        /\ tasks[t].status = "completed"
        /\ details[tasks[t].execution_detail_id].status = "completed"

\* C5: a status that is completed or failed never changes again, for every
\* execution, detail and task.
C5_TerminalStatusIsFinal ==
    [][/\ \A e \in Ids(executions) :
            Terminal(executions[e].status) => executions'[e].status = executions[e].status
       /\ \A d \in Ids(details) :
            Terminal(details[d].status) => details'[d].status = details[d].status
       /\ \A t \in Ids(tasks) :
            Terminal(tasks[t].status) => tasks'[t].status = tasks[t].status]_vars

\* C6: a task the dispatcher marks completed or failed was running just
\* before the update.
C6_RunningBeforeTerminal ==
    [][process_task(1) =>
        \A t \in Ids(tasks) :
            (Terminal(tasks'[t].status) /\ tasks'[t].status # tasks[t].status)
                => tasks[t].status = "running"]_vars

\* C7: with two replicas, for every task at most one order is executed, at
\* most one output row is written and at most one follow-on task is created.
C7_AtMostOncePerTask ==
    \A t \in Ids(tasks) :
        /\ Cardinality({i \in Ids(orders) : orders[i] = t}) <= 1
        /\ Cardinality(OutputRows(t)) <= 1
        /\ Cardinality(Followers(t)) <= 1

\* C8: process_task on a task whose stored status is completed changes
\* nothing in the store and places no order.
C8_CompletedTaskUntouched ==
    [][\A r \in Replicas :
        (/\ disp[r].pc = "execute"
         /\ tasks[Head(disp[r].tasks)].status = "completed"
         /\ process_task(r))
        => UNCHANGED <<executions, details, tasks, outputs, orders>>]_vars

\* C9: between operations, an execution is completed exactly when all its
\* details are completed.
C9_ExecutionCompletedIffDetails ==
    Quiescent =>
        \A e \in Ids(executions) :
            executions[e].status = "completed"
                <=> \A d \in DetailsOf(e) : details[d].status = "completed"

\* C10: once the dispatcher has marked a task failed, the detail and the
\* execution of the task eventually are failed.
C10_FailedTaskCascades ==
    \A e \in 1..MaxExecutions :
        (/\ e \in Ids(executions)
         /\ \E d \in DetailsOf(e) : \E t \in TasksOf(d) : FailedByDispatcher(t))
        ~> (/\ e \in Ids(executions)
            /\ executions[e].status = "failed"
            /\ \A d \in DetailsOf(e) :
                    (\E t \in TasksOf(d) : FailedByDispatcher(t))
                        => details[d].status = "failed")

\* The scheduled time of a task is more than the watchdog's buffer in the
\* past; a task with no timestamp is taken at the last second of its day.
ScheduledPast(task, stamp) ==
    IF task.timestamp_of_execution = NULL
    THEN stamp > (task.day_of_execution + 1) * SECONDS_PER_DAY + WATCHER_BUFFER
    ELSE PastBuffer(task, stamp)

\* A running execution with a running detail that has a queued or running
\* task scheduled more than the buffer in the past.
HasLateTask(db, e, stamp) ==
    /\ db.executions[e].status = "running"
    /\ \E t \in Ids(db.tasks) :
        /\ db.tasks[t].status \in {"queued", "running"}
        /\ db.details[db.tasks[t].execution_detail_id].execution_id = e
        /\ db.details[db.tasks[t].execution_detail_id].status = "running"
        /\ ScheduledPast(db.tasks[t], stamp)

\* The execution, its details and its queued and running tasks are failed.
SubtreeFailed(before, after, e) ==
    /\ after.executions[e].status = "failed"
    /\ \A d \in Ids(after.details) :
            after.details[d].execution_id = e => after.details[d].status = "failed"
    /\ \A t \in Ids(after.tasks) :
            (/\ after.details[after.tasks[t].execution_detail_id].execution_id = e
             /\ before.tasks[t].status \in {"queued", "running"})
                => after.tasks[t].status = "failed"

\* C11: a sweep of the watchdog run in any state fails every running
\* execution that has a running detail with a queued or running task
\* scheduled more than the buffer in the past, with all its details and its
\* queued and running tasks.
C11_SweepFailsLateExecutions ==
    \A e \in Ids(executions) :
        HasLateTask(DB, e, NowStamp) => SubtreeFailed(DB, Sweep(DB, NowStamp), e)

\* The statuses of the descendants of a detail (its tasks) and of an
\* execution (its details and their tasks).
DetailDescendants(db, d) ==
    {db.tasks[t].status : t \in {i \in Ids(db.tasks) : db.tasks[i].execution_detail_id = d}}

ExecutionDescendants(db, e) ==
    {db.details[d].status : d \in {i \in Ids(db.details) : db.details[i].execution_id = e}}
    \cup {db.tasks[t].status :
            t \in {i \in Ids(db.tasks) :
                    db.details[db.tasks[i].execution_detail_id].execution_id = e}}

\* C15: in every quiescent state, each execution and each detail that a
\* sweep of the watchdog turns failed has, after the sweep, a descendant that
\* is failed or not terminal: the watchdog fails none that has no descendants
\* or completed descendants only.
C15_FailureIsJustified ==
    Quiescent =>
        \A after \in {Sweep(DB, NowStamp)} :
            /\ \A e \in Ids(executions) :
                    (executions[e].status # "failed" /\ after.executions[e].status = "failed")
                        => ExecutionDescendants(after, e) \ {"completed"} # {}
            /\ \A d \in Ids(details) :
                    (details[d].status # "failed" /\ after.details[d].status = "failed")
                        => DetailDescendants(after, d) \ {"completed"} # {}

\* C12: after one sweep of the watchdog no completed or failed execution has
\* a detail or a task that is queued or running, a detail with no task rows
\* included.
C12_TerminalExecutionHasTerminalChildren ==
    \A after \in {Sweep(DB, NowStamp)} :
        \A e \in Ids(after.executions) :
            after.executions[e].status \in {"completed", "failed"}
                => ExecutionDescendants(after, e) \cap {"queued", "running"} = {}

\* C13: after one sweep of the watchdog no execution is queued while one of
\* its details or tasks is not queued, a detail with no task rows included.
C13_QueuedExecutionHasQueuedChildren ==
    \A after \in {Sweep(DB, NowStamp)} :
        \A e \in Ids(after.executions) :
            after.executions[e].status = "queued"
                => ExecutionDescendants(after, e) \subseteq {"queued"}

\* The error messages the watchdog writes.
WatchdogReasons ==
    {"Task is queued and scheduled time has passed", "No execution details found",
     "Case 1.2: Detail queued but task not queued",
     "Case 1.3: Detail completed/failed but task not",
     "Case 2: Execution queued but details/tasks not queued",
     "Case 3: Execution completed/failed but details/tasks not"}

\* C14: a second sweep of the watchdog, on the store the first sweep left and
\* at the same clock, leaves every execution, detail and task as the first
\* sweep left it (status, error_message and executed_at included).
C14_SweepIdempotent ==
    \A once \in {Sweep(DB, NowStamp)} : Sweep(once, NowStamp) = once

\* A sweep has failed an execution with its detail and its task, and a second
\* sweep runs on what it left.
C14_Witness ==
    /\ \E t \in Ids(tasks) :
        /\ tasks[t].status = "failed"
        /\ tasks[t].error_message \in WatchdogReasons
        /\ tasks[t].executed_at = NowStamp
        /\ details[tasks[t].execution_detail_id].status = "failed"
    /\ \A e \in Ids(executions) : executions[e].status = "failed"
    /\ Sweep(DB, NowStamp) = DB

\* C16: no order the broker has executed is the order of a task whose
\* stimulate_mode flag is set.
C16_SimulatedTaskPlacesNoOrder ==
    \A i \in Ids(orders) : ~tasks[orders[i]].stimulate_mode

\* C17: in every state the previous_task_id of each sell task is a buy task
\* of the same detail whose status is completed.
C17_SellFollowsCompletedBuy ==
    \A t \in Ids(tasks) :
        tasks[t].order_type = "sell" =>
            /\ tasks[t].previous_task_id \in Ids(tasks)
            /\ tasks[tasks[t].previous_task_id].order_type = "buy"
            /\ tasks[tasks[t].previous_task_id].execution_detail_id
                    = tasks[t].execution_detail_id
            /\ tasks[tasks[t].previous_task_id].status = "completed"

\* The task at which the previous_task_id links of a task end: the first one
\* whose previous_task_id is not an earlier task.
RECURSIVE ChainRoot(_, _)
ChainRoot(tsks, t) ==
    IF tsks[t].previous_task_id \in 1..(t - 1)
    THEN ChainRoot(tsks, tsks[t].previous_task_id)
    ELSE t

\* The root tasks of a detail: those with previous_task_id = -1.
RootTasks(tsks, d) ==
    {t \in Ids(tsks) : tsks[t].execution_detail_id = d /\ tsks[t].previous_task_id = -1}

\* C18: the previous_task_id links of every task end at a buy task with
\* previous_task_id = -1, of the same detail, and each detail has at most
\* one task with previous_task_id = -1.
C18_ChainHasOneRoot ==
    /\ \A t \in Ids(tasks) :
        \A root \in {ChainRoot(tasks, t)} :
            /\ tasks[root].previous_task_id = -1
            /\ tasks[root].order_type = "buy"
            /\ tasks[root].execution_detail_id = tasks[t].execution_detail_id
    /\ \A d \in Ids(details) : Cardinality(RootTasks(tasks, d)) <= 1

\* Two details each have a root buy, and the chain of one of them has
\* reached its follow-on buy, two links from its root.
C18_Witness ==
    /\ \E d1, d2 \in Ids(details) :
        d1 # d2 /\ RootTasks(tasks, d1) # {} /\ RootTasks(tasks, d2) # {}
    /\ \E t \in Ids(tasks) :
        /\ tasks[t].order_type = "buy"
        /\ ChainRoot(tasks, t) # t
        /\ tasks[t].previous_task_id # ChainRoot(tasks, t)

\* C19: every task whose status is completed or failed has an executed_at
\* that is not null, whether the dispatcher or the watchdog wrote the status.
C19_TerminalTaskHasExecutedAt ==
    \A t \in Ids(tasks) :
        tasks[t].status \in {"completed", "failed"} => tasks[t].executed_at # NULL

\* A task completed by the dispatcher, a task failed by the dispatcher and a
\* task failed by the watchdog are in the store.
C19_Witness ==
    /\ \E t \in Ids(tasks) : tasks[t].status = "completed" /\ tasks[t].executed_at # NULL
    /\ \E t \in Ids(tasks) : FailedByDispatcher(t) /\ tasks[t].executed_at # NULL
    /\ \E t \in Ids(tasks) :
        /\ tasks[t].status = "failed"
        /\ tasks[t].error_message \in WatchdogReasons
        /\ tasks[t].executed_at # NULL

\* The sum of weight_percent over the details of an execution.
RECURSIVE WeightSum(_, _)
WeightSum(dets, ds) ==
    IF ds = <<>> THEN 0
    ELSE dets[Head(ds)].weight_percent + WeightSum(dets, Tail(ds))

\* C20: the weight_percent of the details of every stored execution add up
\* to 100: no request with another sum has created an execution or a detail.
C20_WeightsSumTo100 ==
    \A e \in Ids(executions) :
        WeightSum(details, get_strategy_execution_details(details, e)) = 100

\* A trading day of an exchange: not a Saturday or a Sunday and not in the
\* exchange's holiday set.
HolidaySet(exchange) == IF exchange \in {"NSE", "BSE"} THEN nse_holidays ELSE {}

TradingDay(date, exchange) ==
    weekday(date) \notin {5, 6} /\ date \notin HolidaySet(exchange)

\* C21: get_next_business_day(d, e) is the smallest date after d that is
\* neither a Saturday or Sunday nor a holiday of e; for Friday 2026-03-13
\* and NSE it is Monday 2026-03-16.
C21_NextBusinessDayIsSmallest ==
    (call.fn = "get_next_business_day" /\ call.returned) =>
        /\ call.result > call.current_date
        /\ TradingDay(call.result, call.exchange)
        /\ \A date \in (call.current_date + 1)..(call.result - 1) :
                ~TradingDay(date, call.exchange)
        /\ (call.current_date = Friday13March /\ call.exchange = "NSE")
                => call.result = Friday13March + 3

\* The call has returned from a date followed by two holidays and a weekend.
C21_Witness ==
    /\ call.fn = "get_next_business_day" /\ call.returned
    /\ call.exchange = "NSE"
    /\ call.result - call.current_date = 5

\* C22: for a date d that is not a trading day of e, the next business day
\* of the day before get_next_business_day(d, e) is get_next_business_day(d, e).
C22_NextBusinessDayOfDayBefore ==
    (/\ call.fn = "get_next_business_day" /\ call.returned
     /\ ~TradingDay(call.current_date, call.exchange))
        => get_next_business_day(call.result - 1, call.exchange) = call.result

\* The call has returned from a holiday, to a date that is more than a day
\* later.
C22_Witness ==
    /\ call.fn = "get_next_business_day" /\ call.returned
    /\ call.current_date \in HolidaySet(call.exchange)
    /\ weekday(call.current_date) < 5
    /\ call.result - 1 > call.current_date

\* The sum of the returns of the continuous_days accepted days from `first`.
RECURSIVE WindowSum(_, _, _, _, _)
WindowSum(days, x, y, first, continuous_days) ==
    IF continuous_days = 0 THEN 0
    ELSE DayReturn(days[first], x, y)
         + WindowSum(days, x, y, first + 1, continuous_days - 1)

FullWindows(days, continuous_days) == 1..(Len(days) - continuous_days + 1)

\* C23: for every scored (x, y) of a call of find_best_points that returns,
\* exceeded is the number of full windows of continuous_days consecutive
\* accepted days whose sum of returns is above vertical_gap, total_count the
\* number of full windows (D - k + 1), and profit_days the number of full
\* windows whose sum is above 0.
C23_CountsAreWindowCounts ==
    (call.fn = "find_best_points" /\ call.returned /\ call.result.raised = "no") =>
        LET days == AcceptedDays(call.day_data)
            windows == FullWindows(days, call.continuous_days)
        IN \A i \in 1..Len(call.result.scores) :
            LET score == call.result.scores[i]
                sum(first) == WindowSum(days, score.x, score.y, first, call.continuous_days)
            IN /\ score.total_count = Len(days) - call.continuous_days + 1
               /\ score.exceeded
                    = Cardinality({w \in windows : sum(w) * GAP_UNIT > call.vertical_gap})
               /\ score.profit_days = Cardinality({w \in windows : sum(w) > 0})

\* A call over more accepted days than the window is long, where some but
\* not all windows of a pair exceed the gap.
C23_Witness ==
    /\ call.fn = "find_best_points" /\ call.returned /\ call.result.raised = "no"
    /\ call.continuous_days = 2
    /\ Len(AcceptedDays(call.day_data)) > call.continuous_days
    /\ \E i \in 1..Len(call.result.scores) :
        /\ call.result.scores[i].exceeded > 0
        /\ call.result.scores[i].exceeded < call.result.scores[i].total_count

\* C28: a call of find_best_points with fewer accepted days than
\* continuous_days, where no (x, y) has a full window, returns an empty list
\* of scores and raises nothing.
C28_FewDaysReturnEmpty ==
    (/\ call.fn = "find_best_points" /\ call.returned
     /\ call.day_data # <<>>
     /\ Len(AcceptedDays(call.day_data)) < call.continuous_days)
        => (call.result.raised = "no" /\ call.result.scores = <<>>)

\* The symbols of the run the store holds no bar of.
EmptySymbols == {symbol \in DOMAIN job.bars : job.bars[symbol] = <<>>}

RunStocks == {StocksOf(job.config)[i].symbol : i \in 1..Len(StocksOf(job.config))}

RowsOf(symbol) == SelectSeq(job.results, LAMBDA row : row.symbol = symbol)

\* C24: a symbol with an empty bar set yields no result and does not fail
\* the run: no point of it is ever among the candidates, master_data or the
\* stored rows; a run that has such a symbol is never failed by the miner
\* (only a save of the rows of other symbols that raises fails a run), and
\* when it is done it is completed.
C24_EmptyBarsCompleteWithNoRows ==
    (job.pc # "none" /\ EmptySymbols \cap RunStocks # {}) =>
        /\ \A symbol \in EmptySymbols :
            /\ RowsOf(symbol) = <<>>
            /\ \A i \in 1..Len(job.master_data) : job.master_data[i].symbol # symbol
            /\ \A i \in 1..Len(job.candidate_points) :
                    job.candidate_points[i].symbol # symbol
        /\ job.status = "failed" => job.error = "save_strategy_results"
        /\ (job.pc = "done" /\ job.error = "None") => job.status = "completed"

\* A completed run whose first stock had no bars and whose second stock has
\* a stored row.
C24_Witness ==
    /\ job.pc = "done" /\ job.status = "completed"
    /\ "RELIANCE" \in EmptySymbols
    /\ RowsOf("HDFCBANK") # <<>>

\* A step that is one pass of the while loop of a bisection.
IterationStep ==
    job.pc = "search" /\ job'.pc = "search" /\ job'.max_itr < job.max_itr

\* The top point of the midpoint of the pass meets the threshold.
TopPointMeetsThreshold ==
    LET points == find_best_points_for_symbol(job)
    IN /\ points.raised = "no"
       /\ points.scores # <<>>
       /\ MeetsThreshold(points.scores[1])

\* C25: in every pass of a bisection best_valid_point changes only when the
\* top point of the midpoint has exceed_prob >= threshold_prob, and then to
\* that point at that midpoint; its vertical_gap never decreases and equals
\* l_vgap whenever it is set; a pass that fails the threshold, raises or finds
\* no point leaves it as it was.
C25_BestValidNeverRegresses ==
    [][IterationStep =>
        /\ job'.best_valid_point # job.best_valid_point =>
            /\ TopPointMeetsThreshold
            /\ job'.best_valid_point.vertical_gap = v_gap(job)
            /\ MeetsThreshold(job'.best_valid_point)
        /\ ~TopPointMeetsThreshold => job'.best_valid_point = job.best_valid_point
        /\ job.best_valid_point # NoPoint =>
            /\ job'.best_valid_point # NoPoint
            /\ job'.best_valid_point.vertical_gap >= job.best_valid_point.vertical_gap
        /\ job'.best_valid_point # NoPoint =>
            job'.best_valid_point.vertical_gap = job'.l_vgap]_vars

\* A bisection in which a midpoint has met the threshold and a later one has
\* failed it.
C25_Witness ==
    /\ job.pc = "search"
    /\ job.best_valid_point # NoPoint
    /\ job.l_vgap > 0
    /\ job.r_vgap < R_VGAP * GAP_UNIT
    /\ job.max_itr < MAX_ITR - 2

\* A step that leaves a bisection: the job is at the next horizontal gap,
\* window length or stock, or at the save.
ExitStep ==
    /\ job.pc = "search"
    /\ \/ job'.pc = "save"
       \/ /\ job'.pc = "search"
          /\ <<job'.stock, job'.c_days, job'.h_gap>> # <<job.stock, job.c_days, job.h_gap>>
          /\ job'.max_itr = MAX_ITR

\* C26: a bisection ends. Every step out of a state of the search is a pass
\* that uses up one of the 100 evaluations, or the exit; a pass is made only
\* while r_vgap - l_vgap > 0.1 and evaluations are left, the exit is taken
\* only when the bounds are within 0.1 or the 100 evaluations are used up;
\* 0 <= l_vgap <= r_vgap <= 200 throughout; at the exit the best valid point,
\* if there is one, joins the candidates (or, with them, master_data) and the
\* run is not failed.
C26_SearchTerminates ==
    [][/\ job'.pc = "search" =>
            /\ 0 <= job'.l_vgap /\ job'.l_vgap <= job'.r_vgap
            /\ job'.r_vgap <= R_VGAP * GAP_UNIT
            /\ 0 <= job'.max_itr /\ job'.max_itr <= MAX_ITR
       /\ job.pc = "search" => IterationStep \/ ExitStep
       /\ IterationStep =>
            /\ job'.max_itr = job.max_itr - 1
            /\ WiderThanTolerance(job.l_vgap, job.r_vgap)
            /\ job.max_itr > 0
       /\ ExitStep =>
            /\ ~WiderThanTolerance(job.l_vgap, job.r_vgap) \/ job.max_itr = 0
            /\ job'.status = "running" /\ job'.error = "None"
            /\ job.best_valid_point # NoPoint =>
                \/ job'.candidate_points = Append(job.candidate_points, job.best_valid_point)
                \/ /\ Len(job'.master_data) = Len(job.master_data) + 1
                   /\ \/ job'.master_data[Len(job'.master_data)] = job.best_valid_point
                      \/ \E i \in 1..Len(job.candidate_points) :
                            job'.master_data[Len(job'.master_data)] = job.candidate_points[i]
            /\ job.best_valid_point = NoPoint =>
                Len(job'.candidate_points) <= Len(job.candidate_points)]_vars

\* The 100 evaluations of a bisection are used up with the bounds still more
\* than 0.1 apart.
C26_Witness ==
    /\ job.pc = "search"
    /\ job.max_itr = 0
    /\ WiderThanTolerance(job.l_vgap, job.r_vgap)

\* C27: once the loops are over, master_data holds at most one point for each
\* (symbol, continuous_days), and the point it holds for the last one is,
\* among the best valid points of the horizontal gaps (candidate_points),
\* one of largest vertical_gap.
C27_KeepsLargestGap ==
    job.pc \in {"save", "done"} =>
        /\ \A i, k \in 1..Len(job.master_data) :
                (/\ job.master_data[i].symbol = job.master_data[k].symbol
                 /\ job.master_data[i].continuous_days = job.master_data[k].continuous_days)
                    => i = k
        /\ job.candidate_points # <<>> =>
            \E i \in 1..Len(job.master_data) :
                /\ \E c \in 1..Len(job.candidate_points) :
                        job.master_data[i] = job.candidate_points[c]
                /\ \A c \in 1..Len(job.candidate_points) :
                        job.master_data[i].vertical_gap >= job.candidate_points[c].vertical_gap

\* The dispatcher is not inside process_task of the task.
Processed(t) == \A r \in Replicas : disp[r].pc = "idle" \/ Head(disp[r].tasks) # t

\* C29: a completed buy the dispatcher is done with has exactly one
\* follow-on task: a sell of the same detail and day_of_execution, at the y
\* time of the chain in seconds since midnight, with the shares_bought of the
\* broker's response as current_shares, the same days_remaining and the buy
\* as previous_task_id; it is queued until it is executed or failed.
C29_BuyIsFollowedByItsSell ==
    \A t \in Ids(tasks) :
        (tasks[t].order_type = "buy" /\ tasks[t].status = "completed" /\ Processed(t)) =>
            \E s \in Ids(tasks) :
                /\ Followers(t) = {s}
                /\ tasks[s].order_type = "sell"
                /\ tasks[s].execution_detail_id = tasks[t].execution_detail_id
                /\ tasks[s].day_of_execution = tasks[t].day_of_execution
                /\ tasks[s].timestamp_of_execution = convert_to_second(YTime)
                /\ OutputRows(t) # {}
                /\ \A o \in OutputRows(t) :
                        tasks[s].current_shares = outputs[o].shares_bought
                /\ tasks[s].days_remaining = tasks[t].days_remaining
                /\ tasks[s].executed_at = NULL => tasks[s].status = "queued"

\* A buy has completed and its sell is stored, with the shares the broker
\* bought.
C29_Witness ==
    \E t, s \in Ids(tasks) :
        /\ tasks[t].order_type = "buy" /\ tasks[t].status = "completed" /\ Processed(t)
        /\ tasks[s].previous_task_id = t
        /\ tasks[s].order_type = "sell"
        /\ tasks[s].current_shares > 0

\* C30: a completed sell with days_remaining > 1 the dispatcher is done with
\* has exactly one follow-on task: a buy of the same detail on the next
\* calendar day, with the total_amount of the sell as current_money, no
\* shares, one day less remaining, the sell as previous_task_id, and the x
\* time of the chain in seconds since midnight as timestamp_of_execution, so
\* that the dispatcher's query selects it when that time comes.
C30_SellIsFollowedByNextBuy ==
    \A t \in Ids(tasks) :
        (/\ tasks[t].order_type = "sell" /\ tasks[t].status = "completed"
         /\ tasks[t].days_remaining > 1 /\ Processed(t)) =>
            \E s \in Ids(tasks) :
                /\ Followers(t) = {s}
                /\ tasks[s].order_type = "buy"
                /\ tasks[s].execution_detail_id = tasks[t].execution_detail_id
                /\ tasks[s].day_of_execution = tasks[t].day_of_execution + 1
                /\ \A o \in OutputRows(t) : tasks[s].current_money = outputs[o].total_amount
                /\ tasks[s].current_shares = 0
                /\ tasks[s].days_remaining = tasks[t].days_remaining - 1
                /\ tasks[s].timestamp_of_execution = convert_to_second(XTime)
                /\ get_pending_tasks(tasks[s].status,
                                     tasks[s].timestamp_of_execution - BUFFER,
                                     tasks[s].timestamp_of_execution + POLL_INTERVAL,
                                     tasks[s].day_of_execution) # <<>>

\* C31: a step of process_task that sets a task failed (the broker answered
\* success=false, or a statement raised) stores a non-empty error_message,
\* leaves the task with no follow-on task and no output row, and changes the
\* status of no detail and no execution.
C31_FailedTaskLeavesNoTrace ==
    [][process_task(1) =>
        \A t \in Ids(tasks) :
            (tasks'[t].status = "failed" /\ tasks[t].status # "failed") =>
                /\ tasks'[t].error_message \notin {NO_MESSAGE, ""}
                /\ {f \in Ids(tasks') : tasks'[f].previous_task_id = t} = {}
                /\ {o \in Ids(outputs') : outputs'[o].task_id = t} = {}
                /\ details' = details
                /\ executions' = executions]_vars

\* C32: when the poller has moved an execution from queued to running and
\* process_strategy_execution_job has ended, every detail of the execution is
\* running and has exactly one task: a queued buy with previous_task_id -1,
\* no shares, the continuous_days of its result as days_remaining, the x time
\* in seconds as timestamp_of_execution and the next business day from
\* tomorrow as day_of_execution.
C32_EveryDetailGetsItsRootTask ==
    [][\A e \in Ids(executions) :
        (executions[e].status = "queued" /\ executions'[e].status = "running") =>
            \A d \in Ids(details') :
                details'[d].execution_id = e =>
                    /\ details'[d].status = "running"
                    /\ \E t \in Ids(tasks') :
                        /\ {u \in Ids(tasks') : tasks'[u].execution_detail_id = d} = {t}
                        /\ tasks'[t].status = "queued"
                        /\ tasks'[t].order_type = "buy"
                        /\ tasks'[t].previous_task_id = -1
                        /\ tasks'[t].current_shares = 0
                        /\ tasks'[t].days_remaining =
                            strategy_results[details'[d].strategy_result_id].continuous_days
                        /\ tasks'[t].timestamp_of_execution = convert_to_second(XTime)
                        /\ tasks'[t].day_of_execution
                            = get_next_business_day(now.day + 1, "NSE")]_vars

\* The places of a task among the orders the broker has executed.
OrderPlaces(t) == {i \in Ids(orders) : orders[i] = t}

\* C33: with one dispatcher and the watchdog, the tasks of a detail execute
\* in previous_task_id order: every task that follows another was created
\* after it and that one is completed, its order is placed after the order
\* of the one it follows, and no detail ever has two tasks in queued or
\* running.
C33_TasksOfDetailInOrder ==
    /\ \A s \in Ids(tasks) :
        LET prev == tasks[s].previous_task_id IN
        prev # -1 =>
            /\ prev \in 1..(s - 1)
            /\ tasks[prev].status = "completed"
            /\ OrderPlaces(prev) # {}
            /\ \A i \in OrderPlaces(s) : \E k \in OrderPlaces(prev) : k < i
    /\ \A d \in Ids(details) :
        Cardinality({t \in TasksOf(d) : tasks[t].status \in {"queued", "running"}}) <= 1

\* The sell of a chain has been executed after its buy, and the next buy of
\* the chain is stored.
C33_Witness ==
    \E b, s, n \in Ids(tasks) :
        /\ tasks[s].previous_task_id = b
        /\ tasks[n].previous_task_id = s
        /\ OrderPlaces(s) # {}
        /\ tasks[n].status = "queued"

C35_RunsTakenOldestFirst ==
    [][\A b \in Ids(job.runs) :
        (job.runs[b].status = "queued" /\ job'.runs[b].status = "running") =>
            \A a \in Ids(job.runs) :
                job.runs[a].when_added < job.runs[b].when_added =>
                    job.runs[a].status # "queued"]_vars

\* C36: with two pollers, no run is mined by both.
C36_RunMinedByOnePoller ==
    \A strategy_id \in Ids(job.runs) : Cardinality(job.runs[strategy_id].miners) <= 1

\* The pollers that are in the loop body for a run.
RunWorkersAt(strategy_id) ==
    {w \in Replicas : /\ job.worker[w].pc # "idle"
                      /\ job.runs[strategy_id].picked
                      /\ Head(job.worker[w].pending_jobs) = strategy_id}

\* C37: once the poller is done with a run it picked, the run is completed if
\* process_strategy_scheduler_job returned and failed if it raised, and it
\* is not running.
C37_PickedRunEndsTerminal ==
    \A strategy_id \in Ids(job.runs) :
        (job.runs[strategy_id].picked /\ RunWorkersAt(strategy_id) = {}) =>
            /\ job.runs[strategy_id].status # "running"
            /\ job.runs[strategy_id].outcome = "returned" =>
                    job.runs[strategy_id].status = "completed"
            /\ job.runs[strategy_id].outcome = "raised" =>
                    job.runs[strategy_id].status = "failed"

\* C38: a step that changes strategy_results appends rows of runs that are
\* running, and leaves the rows there were as they are.
C38_RowsAddedWhileRunning ==
    [][job'.results # job.results =>
        /\ Len(job'.results) > Len(job.results)
        /\ SubSeq(job'.results, 1, Len(job.results)) = job.results
        /\ \A i \in (Len(job.results) + 1)..Len(job'.results) :
            job.runs[job'.results[i].strategy_id].status = "running"]_vars

\* A run is completed with the rows its job saved while it was running.
C38_Witness ==
    \E strategy_id \in Ids(job.runs) :
        /\ job.runs[strategy_id].status = "completed"
        /\ \E i \in Ids(job.results) : job.results[i].strategy_id = strategy_id

\* C39: no step adds more than 10 rows to strategy_results.
C39_RowsSavedInBatchesOfTen ==
    [][Len(job'.results) - Len(job.results) <= 10]_vars

RunningExecutions == {e \in Ids(executions) : executions[e].status = "running"}

\* C40: with one poller at most one execution is running at any time, and
\* an execution goes from queued to running only in a state in which no
\* execution is running.
C40_OneRunningExecution ==
    /\ [](Cardinality(RunningExecutions) <= 1)
    /\ [][\A e \in Ids(executions) :
            (executions[e].status = "queued" /\ executions'[e].status = "running") =>
                RunningExecutions = {}]_vars

\* An execution has been started after the one before it ended.
C40_Witness ==
    \E a, b \in Ids(executions) :
        /\ a < b
        /\ executions[a].status \in {"completed", "failed"}
        /\ executions[b].status = "running"

====
